---- MODULE Spec2Model ----
(***************************************************************************)
(* Model of conch, the Conventional Commits checker (csdev/conch).         *)
(*                                                                         *)
(* Strings are sequences of one-character strings, so that the regular     *)
(* expressions, strings.ToLower, strings.Join, strings.TrimRight and the   *)
(* line scanner are computed character by character as the Go code does.   *)
(***************************************************************************)
EXTENDS Integers, Sequences, FiniteSets, TLC

VARIABLES
    pc,         \* position of the operation under study: "start" or "done"
    line,       \* argument of Commit.setFirstLine
    msg,        \* argument of Commit.setMessage
    c,          \* the Commit object the operation works on
    err,        \* the error the operation returned (Nil when none)
    footer,     \* receiver of Footer.IsBreakingChange
    isBreaking, \* first result of Footer.IsBreakingChange
    cfg,        \* the config.Config handed to ApplyPolicy
    commits,    \* argument of the batch ApplyPolicy
    i,          \* loop index of the batch ApplyPolicy
    parseErr,   \* the ParseError the batch ApplyPolicy accumulates
    walk,       \* the git commits of the range, in traversal order
    parseArg,   \* argument of semver.Parse
    sv,         \* the pointer semver.Parse returned
    strOut,     \* the string Semver.String returned
    ver,        \* receiver of Compare and of the Next operations
    other,      \* argument of Compare
    third,      \* a third version, for the order laws of Compare
    identA,     \* first argument of compareIdent
    identB,     \* second argument of compareIdent
    result,     \* the int Compare or compareIdent returned
    nextVer,    \* the pointer a Next operation returned
    cls,        \* the int Commit.Classification returned
    filters,    \* the cli.Filters of the command line
    outputs,    \* the cli.Outputs of the command line
    policyErr,  \* the error the batch ApplyPolicy returned to main
    numCommits, \* the number of commits main selected
    impact,     \* the aggregate impact main computed
    stdout,     \* the lines main wrote to standard output
    exitCode,   \* the exit status of main
    paragraph,  \* argument of extractFooters: the lines of a paragraph
    extracted   \* the footers extractFooters returned

vars == <<pc, line, msg, c, err, footer, isBreaking, cfg, commits, i,
          parseErr, walk, parseArg, sv, strOut, ver, other, third, identA,
          identB, result, nextVer, cls, filters, outputs, policyErr,
          numCommits, impact, stdout, exitCode, paragraph, extracted>>

\* The nil error.
Nil == <<>>

-----------------------------------------------------------------------------
(* Strings *)

EmptyStr == <<>>

NewLine == "\n"

UpperCase ==
    <<"A", "B", "C", "D", "E", "F", "G", "H", "I", "J", "K", "L", "M",
      "N", "O", "P", "Q", "R", "S", "T", "U", "V", "W", "X", "Y", "Z">>
LowerCase ==
    <<"a", "b", "c", "d", "e", "f", "g", "h", "i", "j", "k", "l", "m",
      "n", "o", "p", "q", "r", "s", "t", "u", "v", "w", "x", "y", "z">>

\* strings.ToLower on one character.
LowerChar(ch) ==
    IF \E k \in 1..Len(UpperCase) : UpperCase[k] = ch
    THEN LowerCase[CHOOSE k \in 1..Len(UpperCase) : UpperCase[k] = ch]
    ELSE ch

ToLower(s) == [k \in 1..Len(s) |-> LowerChar(s[k])]

\* s[a:b] of Go, with 0-based half-open bounds.
Slice(s, a, b) == SubSeq(s, a + 1, b)

RECURSIVE Join(_, _)
Join(elems, sep) ==
    IF Len(elems) = 0 THEN EmptyStr
    ELSE IF Len(elems) = 1 THEN elems[1]
    ELSE elems[1] \o sep \o Join(Tail(elems), sep)

RECURSIVE TrimRight(_, _)
TrimRight(s, cutset) ==
    IF Len(s) > 0 /\ s[Len(s)] \in cutset
    THEN TrimRight(SubSeq(s, 1, Len(s) - 1), cutset)
    ELSE s

\* bufio.Scanner with the default split function (ScanLines): the lines of
\* the text without their terminator; a final empty line is not a line.
RECURSIVE ScanLines(_)
ScanLines(text) ==
    IF Len(text) = 0 THEN <<>>
    ELSE IF \E k \in 1..Len(text) : text[k] = NewLine
    THEN LET k == CHOOSE k \in 1..Len(text) :
                     /\ text[k] = NewLine
                     /\ \A m \in 1..(k - 1) : text[m] # NewLine
              raw == SubSeq(text, 1, k - 1)
              ln == IF Len(raw) > 0 /\ raw[Len(raw)] = "\r"
                    THEN SubSeq(raw, 1, Len(raw) - 1) ELSE raw
         IN <<ln>> \o ScanLines(SubSeq(text, k + 1, Len(text)))
    ELSE <<IF text[Len(text)] = "\r"
           THEN SubSeq(text, 1, Len(text) - 1) ELSE text>>

-----------------------------------------------------------------------------
(* Errors *)

\* errors.New(text) is <<text>>, and Error() of it the text.
ErrorText(e) == e[1]

ErrSyntax(id, m) == <<id, "syntax error", m>>
ErrEmpty(id) == ErrSyntax(id, "commit message cannot be empty")
ErrSummary(id) ==
    ErrSyntax(id, "commit summary must contain a valid type, optional scope, and description")
ErrBlankLine(id) ==
    ErrSyntax(id, "the commit summary must be followed by a blank line")

ErrFooterSep == <<"BREAKING CHANGE must be followed by a colon and space (: )">>
ErrFooterCaps == <<"BREAKING CHANGE token must be capitalized">>

-----------------------------------------------------------------------------
(* Commit summary grammar *)

\* The characters of \pZ, \x09-\x0D and \x{FEFF} that occur in the model.
IsSeparatorChar(ch) == ch \in {" ", "\t", "\n", "\r"}

\* [^():!\pZ\x09-\x0D\x{FEFF}]
IsTypeChar(ch) == ch \notin {"(", ")", ":", "!"} /\ ~IsSeparatorChar(ch)

\* [^()]
IsScopeChar(ch) == ch \notin {"(", ")"}

\* Every way firstLinePattern matches s: t is the length of the type,
\* sc the length of the scope (0: the group did not take part), ex the length
\* of the exclaim group.
FirstLineParses(s) ==
    { p \in [t : 1..Len(s), sc : 0..Len(s), ex : {0, 1}] :
        LET afterScope == p.t + (IF p.sc > 0 THEN p.sc + 2 ELSE 0)
            afterEx == afterScope + p.ex
        IN /\ \A k \in 1..p.t : IsTypeChar(s[k])
           /\ p.sc > 0 =>
                /\ p.t + p.sc + 2 <= Len(s)
                /\ s[p.t + 1] = "("
                /\ \A k \in (p.t + 2)..(p.t + 1 + p.sc) : IsScopeChar(s[k])
                /\ s[p.t + p.sc + 2] = ")"
           /\ p.ex = 1 => (afterScope + 1 <= Len(s) /\ s[afterScope + 1] = "!")
           /\ afterEx + 3 <= Len(s)
           /\ s[afterEx + 1] = ":"
           /\ s[afterEx + 2] = " "
           /\ \A k \in (afterEx + 3)..Len(s) : s[k] # NewLine }

\* firstLinePattern.FindStringSubmatch: no match (nil), or the submatches of
\* the match the regexp engine prefers (greedy type, scope and exclaim).
firstLinePattern(s) ==
    LET ps == FirstLineParses(s) IN
    IF ps = {}
    THEN [matched |-> FALSE, type |-> EmptyStr, scope |-> EmptyStr,
          exclaim |-> EmptyStr, description |-> EmptyStr]
    ELSE LET p == CHOOSE p \in ps : \A q \in ps :
                      \/ p.t > q.t
                      \/ p.t = q.t /\ p.sc > q.sc
                      \/ p.t = q.t /\ p.sc = q.sc /\ p.ex >= q.ex
             afterScope == p.t + (IF p.sc > 0 THEN p.sc + 2 ELSE 0)
         IN [matched |-> TRUE,
             type |-> SubSeq(s, 1, p.t),
             scope |-> IF p.sc > 0 THEN SubSeq(s, p.t + 2, p.t + 1 + p.sc)
                       ELSE EmptyStr,
             exclaim |-> IF p.ex = 1 THEN <<"!">> ELSE EmptyStr,
             description |-> SubSeq(s, afterScope + p.ex + 3, Len(s))]

NewCommit(id) ==
    [Id |-> id, Type |-> EmptyStr, Scope |-> EmptyStr, IsExclaimed |-> FALSE,
     Description |-> EmptyStr, Body |-> EmptyStr, Footers |-> <<>>,
     IsBreaking |-> FALSE]

\* setFirstLine without the assignment of IsBreaking for an exclaimed summary.
setFirstLineNoBreaking(cm, s) ==
    LET match == firstLinePattern(s) IN
    IF ~match.matched THEN [c |-> cm, err |-> ErrSummary(cm.Id)]
    ELSE [c |-> [cm EXCEPT !.Type = match.type,
                           !.Scope = match.scope,
                           !.IsExclaimed = (match.exclaim = <<"!">>),
                           !.Description = match.description],
          err |-> Nil]

\* Commit.setFirstLine: the commit after the call and the error returned.
setFirstLine(cm, s) ==
    LET match == firstLinePattern(s) IN
    IF ~match.matched THEN [c |-> cm, err |-> ErrSummary(cm.Id)]
    ELSE LET excl == (match.exclaim = <<"!">>) IN
         [c |-> [cm EXCEPT !.Type = match.type,
                           !.Scope = match.scope,
                           !.IsExclaimed = excl,
                           !.Description = match.description,
                           !.IsBreaking = IF excl THEN TRUE ELSE @],
          err |-> Nil]

-----------------------------------------------------------------------------
(* Footers *)

Footer(token, separator, value) ==
    [Token |-> token, Separator |-> separator, Value |-> value]

BreakingChangeSpace ==
    <<"B", "R", "E", "A", "K", "I", "N", "G", " ", "C", "H", "A", "N", "G", "E">>
BreakingChangeHyphen ==
    <<"B", "R", "E", "A", "K", "I", "N", "G", "-", "C", "H", "A", "N", "G", "E">>

ColonSpace == <<":", " ">>
SpaceHash == <<" ", "#">>

\* IsBreakingChange without the check of the separator.
IsBreakingChangeAnySeparator(f) ==
    IF f.Token = BreakingChangeSpace \/ f.Token = BreakingChangeHyphen
    THEN [isBreaking |-> TRUE, err |-> Nil]
    ELSE LET normalizedToken == ToLower(f.Token) IN
         IF \/ normalizedToken = ToLower(BreakingChangeSpace)
            \/ normalizedToken = ToLower(BreakingChangeHyphen)
         THEN [isBreaking |-> FALSE, err |-> ErrFooterCaps]
         ELSE [isBreaking |-> FALSE, err |-> Nil]

\* Footer.IsBreakingChange: the pair of results.
IsBreakingChange(f) ==
    IF f.Token = BreakingChangeSpace \/ f.Token = BreakingChangeHyphen
    THEN IF f.Separator = ColonSpace
         THEN [isBreaking |-> TRUE, err |-> Nil]
         ELSE [isBreaking |-> FALSE, err |-> ErrFooterSep]
    ELSE LET normalizedToken == ToLower(f.Token) IN
         IF \/ normalizedToken = ToLower(BreakingChangeSpace)
            \/ normalizedToken = ToLower(BreakingChangeHyphen)
         THEN [isBreaking |-> FALSE, err |-> ErrFooterCaps]
         ELSE [isBreaking |-> FALSE, err |-> Nil]

\* [^:\pZ\x09-\x0D\x{FEFF}]
IsTokenChar(ch) == ch # ":" /\ ~IsSeparatorChar(ch)

\* Every way footerPattern matches s: alt is the alternative of the token
\* group that matched (1: the literal BREAKING CHANGE, 2: a run of token
\* characters), t the length of the token.
FooterParses(s) ==
    { p \in [alt : {1, 2}, t : 1..Len(s)] :
        /\ p.alt = 1 => /\ p.t = Len(BreakingChangeSpace)
                        /\ SubSeq(s, 1, p.t) = BreakingChangeSpace
        /\ p.alt = 2 => \A k \in 1..p.t : IsTokenChar(s[k])
        /\ p.t + 2 <= Len(s)
        /\ SubSeq(s, p.t + 1, p.t + 2) \in {ColonSpace, SpaceHash}
        /\ \A k \in (p.t + 3)..Len(s) : s[k] # NewLine }

\* footerPattern.FindStringSubmatch: no match (nil), or the submatches of the
\* match the regexp engine prefers (first alternative first, then the longest
\* token).
footerPattern(s) ==
    LET ps == FooterParses(s) IN
    IF ps = {}
    THEN [matched |-> FALSE, token |-> EmptyStr, separator |-> EmptyStr,
          value |-> EmptyStr]
    ELSE LET p == CHOOSE p \in ps : \A q \in ps :
                      \/ p.alt < q.alt
                      \/ p.alt = q.alt /\ p.t >= q.t
         IN [matched |-> TRUE,
             token |-> SubSeq(s, 1, p.t),
             separator |-> SubSeq(s, p.t + 1, p.t + 2),
             value |-> SubSeq(s, p.t + 3, Len(s))]

\* The loop of extractFooters with a continuation line appended to the
\* value without a newline before it.
RECURSIVE extractFootersLoopNoNewLine(_, _, _, _, _)
extractFootersLoopNoNewLine(lines, footers, token, separator, value) ==
    IF Len(lines) = 0
    THEN IF token # EmptyStr
         THEN Append(footers, Footer(token, separator, value))
         ELSE footers
    ELSE LET match == footerPattern(Head(lines)) IN
         IF ~match.matched
         THEN IF token = EmptyStr
              THEN <<>>
              ELSE extractFootersLoopNoNewLine(Tail(lines), footers, token,
                                               separator, value \o Head(lines))
         ELSE extractFootersLoopNoNewLine(
                  Tail(lines),
                  IF token # EmptyStr
                  THEN Append(footers, Footer(token, separator, value))
                  ELSE footers,
                  match.token, match.separator, match.value)

\* The loop of extractFooters over the lines not yet read, with its local
\* variables footers, token, separator and value.
RECURSIVE extractFootersLoop(_, _, _, _, _)
extractFootersLoop(lines, footers, token, separator, value) ==
    IF Len(lines) = 0
    THEN IF token # EmptyStr
         THEN Append(footers, Footer(token, separator, value))
         ELSE footers
    ELSE LET match == footerPattern(Head(lines)) IN
         IF ~match.matched
         THEN IF token = EmptyStr
              THEN <<>>
              ELSE extractFootersLoop(Tail(lines), footers, token, separator,
                                      value \o <<NewLine>> \o Head(lines))
         ELSE extractFootersLoop(
                  Tail(lines),
                  IF token # EmptyStr
                  THEN Append(footers, Footer(token, separator, value))
                  ELSE footers,
                  match.token, match.separator, match.value)

extractFooters(lines) ==
    extractFootersLoop(lines, <<>>, EmptyStr, EmptyStr, EmptyStr)

-----------------------------------------------------------------------------
(* Commit assembly *)

\* scanParStart with the paragraph flag never reset at a blank line, so that
\* the first paragraph is recorded, not the last.
RECURSIVE scanParStartNoReset(_, _, _, _)
scanParStartNoReset(lines, lineNum, parStart, isPar) ==
    IF lineNum >= Len(lines) THEN parStart
    ELSE IF lines[lineNum + 1] # EmptyStr /\ ~isPar
    THEN scanParStartNoReset(lines, lineNum + 1, lineNum, TRUE)
    ELSE scanParStartNoReset(lines, lineNum + 1, parStart, isPar)

\* The line-collecting loop of setMessage: parStart after the lines from
\* index lineNum (0-based) on have been read.
RECURSIVE scanParStart(_, _, _, _)
scanParStart(lines, lineNum, parStart, isPar) ==
    IF lineNum >= Len(lines) THEN parStart
    ELSE IF lines[lineNum + 1] = EmptyStr
    THEN scanParStart(lines, lineNum + 1, parStart, FALSE)
    ELSE IF ~isPar
    THEN scanParStart(lines, lineNum + 1, lineNum, TRUE)
    ELSE scanParStart(lines, lineNum + 1, parStart, isPar)

\* The final loop of setMessage over the footers from index k on.
RECURSIVE classifyFooters(_, _)
classifyFooters(cm, k) ==
    IF k > Len(cm.Footers) THEN [c |-> cm, err |-> Nil]
    ELSE LET r == IsBreakingChange(cm.Footers[k]) IN
         IF r.err # Nil THEN [c |-> cm, err |-> ErrSyntax(cm.Id, ErrorText(r.err))]
         ELSE IF r.isBreaking
         THEN [c |-> [cm EXCEPT !.IsBreaking = TRUE], err |-> Nil]
         ELSE classifyFooters(cm, k + 1)

\* The part of setMessage that reads the lines after the blank line and
\* assigns Body and Footers.
setBodyAndFooters(cm, lines) ==
    LET parStart == scanParStart(lines, 0, -1, FALSE)
        footers == extractFooters(Slice(lines, parStart, Len(lines)))
    IN IF parStart >= 0
       THEN IF Len(footers) = 0
            THEN [cm EXCEPT !.Body = Join(lines, <<NewLine>>)]
            ELSE [cm EXCEPT
                     !.Body = TrimRight(Join(Slice(lines, 0, parStart),
                                             <<NewLine>>), {NewLine}),
                     !.Footers = footers]
       ELSE cm

\* setMessage without the check of the blank line after the summary: the
\* second line is read as the first line of the body.
setMessageNoBlankCheck(cm, m) ==
    LET scanned == ScanLines(m) IN
    IF Len(scanned) = 0 THEN [c |-> cm, err |-> ErrEmpty(cm.Id)]
    ELSE
    LET first == setFirstLine(cm, scanned[1]) IN
    IF first.err # Nil THEN first
    ELSE IF Len(scanned) = 1 THEN [c |-> first.c, err |-> Nil]
    ELSE
    classifyFooters(setBodyAndFooters(first.c, SubSeq(scanned, 2, Len(scanned))), 1)

\* Commit.setMessage: the commit after the call and the error returned.
setMessage(cm, m) ==
    LET scanned == ScanLines(m) IN
    IF Len(scanned) = 0 THEN [c |-> cm, err |-> ErrEmpty(cm.Id)]
    ELSE
    LET first == setFirstLine(cm, scanned[1]) IN
    IF first.err # Nil THEN first
    ELSE IF Len(scanned) = 1 THEN [c |-> first.c, err |-> Nil]
    ELSE IF scanned[2] # EmptyStr
    THEN [c |-> first.c, err |-> ErrBlankLine(cm.Id)]
    ELSE
    classifyFooters(setBodyAndFooters(first.c, SubSeq(scanned, 3, Len(scanned))), 1)

-----------------------------------------------------------------------------
(* Case-insensitive sets and the configuration *)

\* util.CaseInsensitiveSet: a map from lower-case keys to the original
\* strings, or the nil map.
NilSet == [isNil |-> TRUE, m |-> <<>>]

RECURSIVE AddAll(_, _)
AddAll(m, items) ==
    IF Len(items) = 0 THEN m
    ELSE LET key == ToLower(Head(items))
         IN AddAll([k \in DOMAIN m \cup {key} |->
                        IF k = key THEN Head(items) ELSE m[k]],
                   Tail(items))

NewCaseInsensitiveSet(items) == [isNil |-> FALSE, m |-> AddAll(<<>>, items)]

Contains(set, item) == ToLower(item) \in DOMAIN set.m

\* config.Config with its embedded Policy and Exclude; the exclusion prefixes
\* and the types of minor and of patch impact are the nil set unless
\* WithExclude and WithImpactTypes set them.
Config(types, required, scopes, minLength, maxLength, requiredTokens, tokens) ==
    [Policy |->
        [Type |-> [Types |-> types, Minor |-> NilSet, Patch |-> NilSet],
         Scope |-> [Required |-> required, Scopes |-> scopes],
         Description |-> [MinLength |-> minLength, MaxLength |-> maxLength],
         Footer |-> [RequiredTokens |-> requiredTokens, Tokens |-> tokens]],
     Exclude |-> [Prefixes |-> NilSet]]

\* The configuration cf with Exclude.Prefixes set.
WithExclude(cf, prefixes) == [cf EXCEPT !.Exclude.Prefixes = prefixes]

\* The configuration cf with the types of minor and of patch impact set.
WithImpactTypes(cf, minor, patch) ==
    [cf EXCEPT !.Policy.Type.Minor = minor, !.Policy.Type.Patch = patch]

-----------------------------------------------------------------------------
(* Policy errors *)

ErrPolicy(id, m) == <<id, "policy error", m>>
ErrUnrecognizedType(id) == ErrPolicy(id, <<"unrecognized commit type">>)
ErrRequiredScope(id) == ErrPolicy(id, <<"commit must have a scope">>)
ErrUnrecognizedScope(id) == ErrPolicy(id, <<"unrecognized commit scope">>)

ErrDescriptionLength(id, min, max) ==
    LET effMin == IF min < 1 THEN 1 ELSE min IN
    IF max > 0
    THEN ErrPolicy(id, <<"description must be between ", ToString(effMin),
                         " and ", ToString(max), " chars long">>)
    ELSE ErrPolicy(id, <<"description must be longer than ", ToString(effMin),
                         " chars">>)

ErrUnrecognizedFooter(id, token) ==
    ErrPolicy(id, <<"unrecognized footer: ", token>>)

\* The characters of the model in byte order.
CharOrder ==
    <<"\t", "\n", "\r", " ", "!", "#", "(", ")", "+", "-", ".",
      "0", "1", "2", "3", "4", "5", "6", "7", "8", "9", ":">>
        \o UpperCase \o <<"_">> \o LowerCase

ByteRank(ch) == CHOOSE k \in 1..Len(CharOrder) : CharOrder[k] = ch

\* a < b for strings, as sort.Strings compares them.
RECURSIVE StringLess(_, _)
StringLess(a, b) ==
    IF Len(b) = 0 THEN FALSE
    ELSE IF Len(a) = 0 THEN TRUE
    ELSE IF Head(a) # Head(b) THEN ByteRank(Head(a)) < ByteRank(Head(b))
    ELSE StringLess(Tail(a), Tail(b))

\* sort.Strings on the strings of a set.
RECURSIVE SortStrings(_)
SortStrings(strs) ==
    IF strs = {} THEN <<>>
    ELSE LET least == CHOOSE x \in strs :
                          \A y \in strs \ {x} : StringLess(x, y)
         IN <<least>> \o SortStrings(strs \ {least})

\* ErrRequiredFooters of the later revision of the package: the keys of the
\* set, sorted and joined by ", ".
ErrRequiredFooters(id, tokens) ==
    ErrPolicy(id, <<"commit must include footers: ",
                    Join(SortStrings(DOMAIN tokens.m), <<",", " ">>)>>)

-----------------------------------------------------------------------------
(* Policy engine *)

\* The footer loop of Commit.ApplyPolicy from index k on.
RECURSIVE checkFooters(_, _, _)
checkFooters(cm, policy, k) ==
    IF k > Len(cm.Footers) THEN Nil
    ELSE IF /\ ~policy.Footer.Tokens.isNil
            /\ ~Contains(policy.Footer.Tokens, cm.Footers[k].Token)
    THEN ErrUnrecognizedFooter(cm.Id, cm.Footers[k].Token)
    ELSE checkFooters(cm, policy, k + 1)

\* Commit.ApplyPolicy: the error returned.
ApplyPolicy(cm, cf) ==
    LET policy == cf.Policy
        descLen == Len(cm.Description)
        min == policy.Description.MinLength
        max == policy.Description.MaxLength
    IN IF ~policy.Type.Types.isNil /\ ~Contains(policy.Type.Types, cm.Type)
       THEN ErrUnrecognizedType(cm.Id)
       ELSE IF cm.Scope # EmptyStr /\ policy.Scope.Required
       THEN ErrRequiredScope(cm.Id)
       ELSE IF /\ cm.Scope # EmptyStr
               /\ ~policy.Scope.Scopes.isNil
               /\ ~Contains(policy.Scope.Scopes, cm.Scope)
       THEN ErrUnrecognizedScope(cm.Id)
       ELSE IF (descLen < min) \/ (max > 0 /\ descLen > max)
       THEN ErrDescriptionLength(cm.Id, min, max)
       ELSE checkFooters(cm, policy, 1)

-----------------------------------------------------------------------------
(* ParseError, the aggregate of the errors of a batch *)

NewParseError == <<"ParseError", <<>>>>

\* ParseError.Append
AppendError(e, er) == <<"ParseError", Append(e[2], er)>>

\* ParseError.HasErrors
HasErrors(e) == Len(e[2]) > 0

-----------------------------------------------------------------------------
(* Values of the variables an operation does not use *)

NoFooter == Footer(EmptyStr, EmptyStr, EmptyStr)
NoConfig == Config(NilSet, FALSE, NilSet, 0, 0, NilSet, NilSet)

-----------------------------------------------------------------------------
(* Specification of Commit.setFirstLine over bounded lines *)

MaxFirstLineLen == 6

FirstLineAlphabet == {"f", "(", ")", "!", ":", " "}

\* Lines with a scope group, which are longer than MaxFirstLineLen.
ScopedFirstLines ==
    { ty \o <<"(">> \o sc \o <<")">> \o ex \o sep \o d :
        ty \in {EmptyStr, <<"f">>},
        sc \in {EmptyStr, <<"f">>, <<"f", " ">>, <<"(">>, <<":">>},
        ex \in {EmptyStr, <<"!">>, <<"!", "!">>},
        sep \in {<<":", " ">>, <<":">>},
        d \in {EmptyStr, <<"f">>, <<":", " ">>} }

FirstLines ==
    UNION { [1..n -> FirstLineAlphabet] : n \in 0..MaxFirstLineLen }
        \cup ScopedFirstLines

InitFirstLine ==
    /\ pc = "start"
    /\ line \in FirstLines
    /\ msg = EmptyStr
    /\ c = NewCommit("0")
    /\ err = Nil
    /\ footer = NoFooter
    /\ isBreaking = FALSE
    /\ cfg = NoConfig
    /\ commits = <<>>
    /\ i = 0
    /\ parseErr = NewParseError
    /\ walk = <<>>
    /\ parseArg = <<>>
    /\ sv = <<>>
    /\ strOut = <<>>
    /\ ver = <<>>
    /\ other = <<>>
    /\ third = <<>>
    /\ identA = <<>>
    /\ identB = <<>>
    /\ result = 0
    /\ nextVer = <<>>
    /\ cls = 0
    /\ filters = <<>>
    /\ outputs = <<>>
    /\ policyErr = <<>>
    /\ numCommits = 0
    /\ impact = 0
    /\ stdout = <<>>
    /\ exitCode = 0
    /\ paragraph = <<>>
    /\ extracted = <<>>

\* c.setFirstLine(line)
SetFirstLine ==
    /\ pc = "start"
    /\ LET r == setFirstLine(c, line) IN
        /\ c' = r.c
        /\ err' = r.err
    /\ pc' = "done"
    /\ UNCHANGED <<line, msg, footer, isBreaking, cfg, commits, i, parseErr,
                   walk, parseArg, sv, strOut, ver, other, third, identA,
                   identB, result, nextVer, cls, filters, outputs, policyErr,
                   numCommits, impact, stdout, exitCode, paragraph,
                   extracted>>

NextFirstLine == SetFirstLine

SpecFirstLine == InitFirstLine /\ [][NextFirstLine]_vars

\* The summary line written from the parsed fields, with the exclamation
\* mark the line had.
SummaryOf(cm) ==
    cm.Type
        \o (IF cm.Scope # EmptyStr THEN <<"(">> \o cm.Scope \o <<")">>
            ELSE EmptyStr)
        \o (IF cm.IsExclaimed THEN <<"!">> ELSE EmptyStr)
        \o <<":", " ">> \o cm.Description

\* C6: setFirstLine is atomic. When it has returned, either there is no
\* error, type and description are non-empty, type, scope, the exclamation
\* mark and the description are the parts of the line (the line is
\* type(scope)!: description with them, the type holds no character the
\* grammar excludes and the scope no parenthesis), and is-breaking is true
\* when the '!' is present; or the error is the summary syntax error and the
\* commit has its initial unset values.
C6_SetFirstLineAtomic ==
    pc = "done" =>
        \/ /\ err = Nil
           /\ c.Type # EmptyStr
           /\ c.Description # EmptyStr
           /\ \A k \in 1..Len(c.Type) : IsTypeChar(c.Type[k])
           /\ \A k \in 1..Len(c.Scope) : IsScopeChar(c.Scope[k])
           /\ line = SummaryOf(c)
           /\ c.IsExclaimed => c.IsBreaking
           /\ c.Id = "0" /\ c.Body = EmptyStr /\ c.Footers = <<>>
        \/ /\ err = ErrSummary("0")
           /\ c = NewCommit("0")

\* A line with a scope and an exclamation mark was parsed.
C6_WitnessParsed ==
    /\ pc = "done" /\ err = Nil
    /\ c.Scope # EmptyStr /\ c.IsExclaimed /\ c.IsBreaking

\* A line was rejected.
C6_WitnessRejected ==
    pc = "done" /\ err = ErrSummary("0") /\ Len(line) > 0

-----------------------------------------------------------------------------
(* Specification of Commit.setMessage over bounded messages *)

MaxTailLines == 4

ColonSpaceX == <<":", " ", "x">>

\* The lines a message is made of after its first line.
TailLines ==
    { EmptyStr,
      <<"t">>,
      <<"R", ":", " ", "1">>,
      BreakingChangeSpace \o ColonSpaceX,
      BreakingChangeSpace \o <<" ", "#", "x">>,
      BreakingChangeHyphen \o ColonSpaceX,
      ToLower(BreakingChangeHyphen) \o ColonSpaceX,
      ToLower(BreakingChangeSpace) \o ColonSpaceX }

SummaryLines ==
    { <<"f", ":", " ", "d">>,
      <<"f", "(", "s", ")", "!", ":", " ", "d">>,
      <<"f">>,
      EmptyStr }

Messages ==
    { Join(<<first>> \o tail, <<NewLine>>) \o trailer :
        first \in SummaryLines,
        tail \in UNION { [1..n -> TailLines] : n \in 0..MaxTailLines },
        trailer \in {EmptyStr, <<NewLine>>} }
        \cup {EmptyStr}

Init ==
    /\ pc = "start"
    /\ line = EmptyStr
    /\ msg \in Messages
    /\ c = NewCommit("0")
    /\ err = Nil
    /\ footer = NoFooter
    /\ isBreaking = FALSE
    /\ cfg = NoConfig
    /\ commits = <<>>
    /\ i = 0
    /\ parseErr = NewParseError
    /\ walk = <<>>
    /\ parseArg = <<>>
    /\ sv = <<>>
    /\ strOut = <<>>
    /\ ver = <<>>
    /\ other = <<>>
    /\ third = <<>>
    /\ identA = <<>>
    /\ identB = <<>>
    /\ result = 0
    /\ nextVer = <<>>
    /\ cls = 0
    /\ filters = <<>>
    /\ outputs = <<>>
    /\ policyErr = <<>>
    /\ numCommits = 0
    /\ impact = 0
    /\ stdout = <<>>
    /\ exitCode = 0
    /\ paragraph = <<>>
    /\ extracted = <<>>

\* c.setMessage(msg)
SetMessage ==
    /\ pc = "start"
    /\ LET r == setMessage(c, msg) IN
        /\ c' = r.c
        /\ err' = r.err
    /\ pc' = "done"
    /\ UNCHANGED <<line, msg, footer, isBreaking, cfg, commits, i, parseErr,
                   walk, parseArg, sv, strOut, ver, other, third, identA,
                   identB, result, nextVer, cls, filters, outputs, policyErr,
                   numCommits, impact, stdout, exitCode, paragraph,
                   extracted>>

Next == SetMessage

Spec == Init /\ [][Next]_vars

-----------------------------------------------------------------------------
(* Properties of Commit.setMessage *)

\* Comparison of two strings with case ignored.
EqualFold(a, b) ==
    /\ Len(a) = Len(b)
    /\ \A k \in 1..Len(a) : LowerChar(a[k]) = LowerChar(b[k])

IsExactBreakingToken(tok) ==
    tok \in {BreakingChangeSpace, BreakingChangeHyphen}

IsBreakingTokenIgnoringCase(tok) ==
    EqualFold(tok, BreakingChangeSpace) \/ EqualFold(tok, BreakingChangeHyphen)

\* A footer that is a malformed breaking-change marker: the exact token with
\* a separator other than ": ", or a wrong-case variant of the token.
IsNearMiss(f) ==
    \/ IsExactBreakingToken(f.Token) /\ f.Separator # ColonSpace
    \/ IsBreakingTokenIgnoringCase(f.Token) /\ ~IsExactBreakingToken(f.Token)

NearMissError(f) ==
    IF IsExactBreakingToken(f.Token) THEN ErrFooterSep ELSE ErrFooterCaps

\* C1: when setMessage has returned and one of the extracted footers is a
\* malformed breaking-change near-miss, the parse has failed with the
\* separator or capitalization error of the first such footer, also when an
\* earlier footer is a valid breaking marker.
C1_NearMissAlwaysFails ==
    (pc = "done" /\ \E k \in 1..Len(c.Footers) : IsNearMiss(c.Footers[k])) =>
        LET k == CHOOSE k \in 1..Len(c.Footers) :
                     /\ IsNearMiss(c.Footers[k])
                     /\ \A m \in 1..(k - 1) : ~IsNearMiss(c.Footers[m])
        IN err = ErrSyntax("0", ErrorText(NearMissError(c.Footers[k])))

\* The text of m before its first line terminator.
FirstLineOf(m) ==
    IF \E k \in 1..Len(m) : m[k] = NewLine
    THEN SubSeq(m, 1, (CHOOSE k \in 1..Len(m) :
                          /\ m[k] = NewLine
                          /\ \A j \in 1..(k - 1) : m[j] # NewLine) - 1)
    ELSE m

\* The text of m after its first line terminator (empty when there is none).
AfterFirstLine(m) == SubSeq(m, Len(FirstLineOf(m)) + 2, Len(m))

IsValidSummary(s) == FirstLineParses(s) # {}

\* m has a valid summary line followed by a blank line.
HasSummaryAndBlank(m) ==
    /\ IsValidSummary(FirstLineOf(m))
    /\ AfterFirstLine(m) # EmptyStr
    /\ FirstLineOf(AfterFirstLine(m)) = EmptyStr

\* The lines of m after the summary and the blank line.
RemainingLines(m) == ScanLines(AfterFirstLine(AfterFirstLine(m)))

HasParagraph(lines) == \E k \in 1..Len(lines) : lines[k] # EmptyStr

\* The index (from 1) of the first line of the last paragraph: the last
\* non-blank line that follows a blank line or starts the block.
LastParagraphStart(lines) ==
    CHOOSE k \in 1..Len(lines) :
        /\ lines[k] # EmptyStr
        /\ k = 1 \/ lines[k - 1] = EmptyStr
        /\ \A m \in (k + 1)..Len(lines) :
               ~(lines[m] # EmptyStr /\ lines[m - 1] = EmptyStr)

\* s is '<token>: <value>' with a token that is BREAKING CHANGE or
\* BREAKING-CHANGE when case is ignored, but not in upper case.
IsWrongCaseBreakingLine(s) ==
    LET n == Len(BreakingChangeSpace) IN
    /\ Len(s) >= n + 2
    /\ IsBreakingTokenIgnoringCase(SubSeq(s, 1, n))
    /\ ~IsExactBreakingToken(SubSeq(s, 1, n))
    /\ SubSeq(s, n + 1, n + 2) = ColonSpace

\* C2: when setMessage has returned for a message with a valid summary and
\* blank line whose final paragraph starts with a wrong-case breaking-change
\* line, the parse has failed with the capitalization error.
C2_WrongCaseAlwaysFails ==
    (/\ pc = "done"
     /\ HasSummaryAndBlank(msg)
     /\ HasParagraph(RemainingLines(msg))
     /\ IsWrongCaseBreakingLine(
            RemainingLines(msg)[LastParagraphStart(RemainingLines(msg))])) =>
        err = ErrSyntax("0", ErrorText(ErrFooterCaps))

IsFooterLine(s) == FooterParses(s) # {}

\* b is full without its trailing line terminators.
IsTrimmedOf(b, full) ==
    /\ Len(b) <= Len(full)
    /\ SubSeq(full, 1, Len(b)) = b
    /\ \A k \in (Len(b) + 1)..Len(full) : full[k] = NewLine
    /\ Len(b) > 0 => b[Len(b)] # NewLine

\* C4: when setMessage has returned for a message with a valid summary, a
\* blank line and at least one paragraph after it, body and footers are
\* decided by the first line of the last paragraph alone: if it is not a
\* footer line, there are no footers and the body is all remaining lines
\* joined by newlines; if it is, the footers are those extracted from the
\* last paragraph (at least one) and the body is the lines before that
\* paragraph joined by newlines, without trailing newlines.
C4_LastParagraphDecides ==
    (/\ pc = "done"
     /\ HasSummaryAndBlank(msg)
     /\ HasParagraph(RemainingLines(msg))) =>
        LET rest == RemainingLines(msg)
            ps == LastParagraphStart(rest)
        IN IF IsFooterLine(rest[ps])
           THEN /\ c.Footers # <<>>
                /\ c.Footers = extractFooters(SubSeq(rest, ps, Len(rest)))
                /\ IsTrimmedOf(c.Body, Join(SubSeq(rest, 1, ps - 1), <<NewLine>>))
           ELSE /\ c.Footers = <<>>
                /\ c.Body = Join(rest, <<NewLine>>)

\* A message with a body paragraph and a footer paragraph was parsed.
C4_WitnessBodyAndFooters ==
    /\ pc = "done" /\ err = Nil
    /\ c.Body # EmptyStr /\ c.Footers # <<>>
    /\ \E k \in 1..Len(RemainingLines(msg)) :
           k > 1 /\ ~IsFooterLine(RemainingLines(msg)[k])

IsFooterError(e) ==
    e \in {ErrSyntax("0", ErrorText(ErrFooterSep)),
           ErrSyntax("0", ErrorText(ErrFooterCaps))}

\* C5: setMessage reports the first failure in the order of its states. When
\* it has returned: for the empty message the error is the empty-message
\* error; otherwise for an invalid first line it is the summary error;
\* otherwise, when the input ends after the summary, there is no error, no
\* body and no footer; otherwise for a non-blank second line it is the
\* blank-line-required error, with no body and no footer; and only in the
\* remaining case can the error be a footer classification error.
C5_ErrorOrder ==
    pc = "done" =>
        IF msg = EmptyStr
        THEN err = ErrEmpty("0") /\ c = NewCommit("0")
        ELSE IF ~IsValidSummary(FirstLineOf(msg))
        THEN err = ErrSummary("0") /\ c = NewCommit("0")
        ELSE IF AfterFirstLine(msg) = EmptyStr
        THEN err = Nil /\ c.Body = EmptyStr /\ c.Footers = <<>>
        ELSE IF FirstLineOf(AfterFirstLine(msg)) # EmptyStr
        THEN err = ErrBlankLine("0") /\ c.Body = EmptyStr /\ c.Footers = <<>>
        ELSE err = Nil \/ IsFooterError(err)

\* A message whose second line is a footer line was rejected for the missing
\* blank line.
C5_WitnessBlankLine ==
    /\ pc = "done" /\ err = ErrBlankLine("0")
    /\ IsFooterLine(FirstLineOf(AfterFirstLine(msg)))

-----------------------------------------------------------------------------
(* Specification of Footer.IsBreakingChange over footers built directly *)

\* s with its first k characters in lower case.
LowerPrefix(s, k) ==
    [j \in 1..Len(s) |-> IF j <= k THEN LowerChar(s[j]) ELSE s[j]]

FooterTokens ==
    { LowerPrefix(tok, k) :
        tok \in {BreakingChangeSpace, BreakingChangeHyphen},
        k \in 0..Len(BreakingChangeSpace) }
        \cup { EmptyStr,
               <<"R">>,
               <<"B", "R", "E", "A", "K", "I", "N", "G">>,
               <<"C", "H", "A", "N", "G", "E">>,
               BreakingChangeSpace \o <<"S">>,
               <<"B", "R", "E", "A", "K", "I", "N", "G", "_",
                 "C", "H", "A", "N", "G", "E">> }

FooterSeparators == {ColonSpace, SpaceHash, <<":">>, EmptyStr}

FooterValues == {EmptyStr, <<"x">>}

InitFooter ==
    /\ pc = "start"
    /\ line = EmptyStr
    /\ msg = EmptyStr
    /\ c = NewCommit("0")
    /\ err = Nil
    /\ footer \in { Footer(tok, sep, val) :
                      tok \in FooterTokens,
                      sep \in FooterSeparators,
                      val \in FooterValues }
    /\ isBreaking = FALSE
    /\ cfg = NoConfig
    /\ commits = <<>>
    /\ i = 0
    /\ parseErr = NewParseError
    /\ walk = <<>>
    /\ parseArg = <<>>
    /\ sv = <<>>
    /\ strOut = <<>>
    /\ ver = <<>>
    /\ other = <<>>
    /\ third = <<>>
    /\ identA = <<>>
    /\ identB = <<>>
    /\ result = 0
    /\ nextVer = <<>>
    /\ cls = 0
    /\ filters = <<>>
    /\ outputs = <<>>
    /\ policyErr = <<>>
    /\ numCommits = 0
    /\ impact = 0
    /\ stdout = <<>>
    /\ exitCode = 0
    /\ paragraph = <<>>
    /\ extracted = <<>>

\* isBreaking, err := footer.IsBreakingChange()
CallIsBreakingChange ==
    /\ pc = "start"
    /\ LET r == IsBreakingChange(footer) IN
        /\ isBreaking' = r.isBreaking
        /\ err' = r.err
    /\ pc' = "done"
    /\ UNCHANGED <<line, msg, c, footer, cfg, commits, i, parseErr, walk,
                   parseArg, sv, strOut, ver, other, third, identA, identB,
                   result, nextVer, cls, filters, outputs, policyErr,
                   numCommits, impact, stdout, exitCode, paragraph,
                   extracted>>

NextFooter == CallIsBreakingChange

SpecFooter == InitFooter /\ [][NextFooter]_vars

\* C3: when IsBreakingChange has returned for a footer, the result is
\* (true, no error) exactly when the token is exactly BREAKING CHANGE or
\* BREAKING-CHANGE and the separator is ": "; it is the separator error when
\* the token is one of the two and the separator is anything else; the
\* capitalization error when the token is one of the two only with case
\* ignored; and (false, no error) for every other token.
C3_IsBreakingChangeCases ==
    pc = "done" =>
        /\ (isBreaking /\ err = Nil) <=>
               (IsExactBreakingToken(footer.Token) /\ footer.Separator = ColonSpace)
        /\ (IsExactBreakingToken(footer.Token) /\ footer.Separator # ColonSpace) =>
               (~isBreaking /\ err = ErrFooterSep)
        /\ (/\ IsBreakingTokenIgnoringCase(footer.Token)
            /\ ~IsExactBreakingToken(footer.Token)) =>
               (~isBreaking /\ err = ErrFooterCaps)
        /\ ~IsBreakingTokenIgnoringCase(footer.Token) =>
               (~isBreaking /\ err = Nil)

\* The exact token with the separator " #" was given the separator error.
C3_WitnessSeparatorError ==
    /\ pc = "done"
    /\ footer.Token = BreakingChangeSpace /\ footer.Separator = SpaceHash
    /\ err = ErrFooterSep

-----------------------------------------------------------------------------
(* Specification of Commit.ApplyPolicy over bounded commits and policies *)

MaxDescLen == 3
MaxFooters == 2

\* The string of n characters "d".
Repeat(n) == [k \in 1..n |-> "d"]

PolicyFooters == { Footer(<<"R">>, ColonSpace, <<"1">>),
                   Footer(<<"S">>, ColonSpace, <<"1">>) }

\* Commits as setMessage leaves them: type and description are not empty.
PolicyCommits ==
    { [NewCommit("0") EXCEPT !.Type = ty, !.Scope = sc,
                             !.Description = Repeat(n), !.Footers = fs] :
        ty \in {<<"F">>, <<"x">>},
        sc \in {EmptyStr, <<"s">>, <<"x">>},
        n \in 1..MaxDescLen,
        fs \in UNION { [1..n -> PolicyFooters] : n \in 0..MaxFooters } }

PolicyConfigs ==
    { Config(types, required, scopes, min, max, requiredTokens, tokens) :
        types \in {NilSet, NewCaseInsensitiveSet(<<<<"f">>>>)},
        required \in BOOLEAN,
        scopes \in {NilSet, NewCaseInsensitiveSet(<<<<"S">>>>)},
        min \in 0..MaxDescLen,
        max \in 0..MaxDescLen,
        requiredTokens \in {NilSet, NewCaseInsensitiveSet(<<<<"s">>, <<"r">>>>)},
        tokens \in {NilSet, NewCaseInsensitiveSet(<<<<"r">>>>)} }

InitPolicy ==
    /\ pc = "start"
    /\ line = EmptyStr
    /\ msg = EmptyStr
    /\ c \in PolicyCommits
    /\ err = Nil
    /\ footer = NoFooter
    /\ isBreaking = FALSE
    /\ cfg \in PolicyConfigs
    /\ commits = <<>>
    /\ i = 0
    /\ parseErr = NewParseError
    /\ walk = <<>>
    /\ parseArg = <<>>
    /\ sv = <<>>
    /\ strOut = <<>>
    /\ ver = <<>>
    /\ other = <<>>
    /\ third = <<>>
    /\ identA = <<>>
    /\ identB = <<>>
    /\ result = 0
    /\ nextVer = <<>>
    /\ cls = 0
    /\ filters = <<>>
    /\ outputs = <<>>
    /\ policyErr = <<>>
    /\ numCommits = 0
    /\ impact = 0
    /\ stdout = <<>>
    /\ exitCode = 0
    /\ paragraph = <<>>
    /\ extracted = <<>>

\* err := c.ApplyPolicy(cfg)
CallApplyPolicy ==
    /\ pc = "start"
    /\ err' = ApplyPolicy(c, cfg)
    /\ pc' = "done"
    /\ UNCHANGED <<line, msg, c, footer, isBreaking, cfg, commits, i,
                   parseErr, walk, parseArg, sv, strOut, ver, other, third,
                   identA, identB, result, nextVer, cls, filters, outputs,
                   policyErr, numCommits, impact, stdout, exitCode,
                   paragraph, extracted>>

NextPolicy == CallApplyPolicy

SpecPolicy == InitPolicy /\ [][NextPolicy]_vars

-----------------------------------------------------------------------------
(* Properties of Commit.ApplyPolicy *)

\* The strings a configured set was built from.
Originals(set) == { set.m[k] : k \in DOMAIN set.m }

IsConfigured(set) == ~set.isNil

\* item occurs in the set when case is ignored.
OccursIn(item, set) == \E x \in Originals(set) : EqualFold(x, item)

TypeViolated(cm, cf) ==
    /\ IsConfigured(cf.Policy.Type.Types)
    /\ ~OccursIn(cm.Type, cf.Policy.Type.Types)

ScopeMissing(cm, cf) == cm.Scope = EmptyStr /\ cf.Policy.Scope.Required

ScopeUnrecognized(cm, cf) ==
    /\ cm.Scope # EmptyStr
    /\ IsConfigured(cf.Policy.Scope.Scopes)
    /\ ~OccursIn(cm.Scope, cf.Policy.Scope.Scopes)

DescriptionViolated(cm, cf) ==
    \/ Len(cm.Description) < cf.Policy.Description.MinLength
    \/ /\ cf.Policy.Description.MaxLength > 0
       /\ Len(cm.Description) > cf.Policy.Description.MaxLength

FooterUnrecognized(cm, cf, k) ==
    /\ IsConfigured(cf.Policy.Footer.Tokens)
    /\ ~OccursIn(cm.Footers[k].Token, cf.Policy.Footer.Tokens)

\* The required tokens (as keys) that no footer of the commit carries.
MissingTokens(cm, cf) ==
    { k \in DOMAIN cf.Policy.Footer.RequiredTokens.m :
        \A j \in 1..Len(cm.Footers) : ~EqualFold(cm.Footers[j].Token, k) }

MissingSet(cm, cf) ==
    [isNil |-> FALSE,
     m |-> [k \in MissingTokens(cm, cf) |-> cf.Policy.Footer.RequiredTokens.m[k]]]

\* C7: when ApplyPolicy has returned for a commit whose type is allowed: an
\* empty scope under a policy that requires a scope gives the required-scope
\* error; a non-empty scope that the configured allowed scopes do not contain
\* gives the unrecognized-scope error; and a non-empty scope never gives the
\* required-scope error.
C7_ScopeCheck ==
    (pc = "done" /\ ~TypeViolated(c, cfg)) =>
        /\ ScopeMissing(c, cfg) => err = ErrRequiredScope("0")
        /\ ScopeUnrecognized(c, cfg) => err = ErrUnrecognizedScope("0")
        /\ c.Scope # EmptyStr => err # ErrRequiredScope("0")

\* C8: when ApplyPolicy has returned for a commit that passes the checks of
\* type, scope, description length and allowed footer tokens: if some
\* required footer token does not occur among the commit's footer tokens, the
\* error is the required-footers error listing exactly the missing tokens in
\* sorted order; if every required token occurs, there is no error.
C8_RequiredFooters ==
    (/\ pc = "done"
     /\ ~TypeViolated(c, cfg)
     /\ ~ScopeMissing(c, cfg)
     /\ ~ScopeUnrecognized(c, cfg)
     /\ ~DescriptionViolated(c, cfg)
     /\ \A k \in 1..Len(c.Footers) : ~FooterUnrecognized(c, cfg, k)) =>
        IF MissingTokens(c, cfg) # {}
        THEN err = ErrRequiredFooters("0", MissingSet(c, cfg))
        ELSE err = Nil

\* The single violation the policy contract gives a commit: the first one in
\* the order type, scope, description length, footer tokens, required
\* footers; Nil when there is none.
FirstViolation(cm, cf) ==
    IF TypeViolated(cm, cf) THEN ErrUnrecognizedType(cm.Id)
    ELSE IF ScopeMissing(cm, cf) THEN ErrRequiredScope(cm.Id)
    ELSE IF ScopeUnrecognized(cm, cf) THEN ErrUnrecognizedScope(cm.Id)
    ELSE IF DescriptionViolated(cm, cf)
    THEN ErrDescriptionLength(cm.Id, cf.Policy.Description.MinLength,
                              cf.Policy.Description.MaxLength)
    ELSE IF \E k \in 1..Len(cm.Footers) : FooterUnrecognized(cm, cf, k)
    THEN LET k == CHOOSE k \in 1..Len(cm.Footers) :
                      /\ FooterUnrecognized(cm, cf, k)
                      /\ \A j \in 1..(k - 1) : ~FooterUnrecognized(cm, cf, j)
         IN ErrUnrecognizedFooter(cm.Id, cm.Footers[k].Token)
    ELSE IF MissingTokens(cm, cf) # {}
    THEN ErrRequiredFooters(cm.Id, MissingSet(cm, cf))
    ELSE Nil

\* C9: when ApplyPolicy has returned, its result is the first violation in
\* the fixed order (unrecognized type, scope, description length,
\* unrecognized footer token, missing required footers), and no error exactly
\* when no check is violated.
C9_FirstViolationWins ==
    pc = "done" => err = FirstViolation(c, cfg)

-----------------------------------------------------------------------------
(* Specification of the batch ApplyPolicy over bounded batches *)

MaxBatch == 3

BatchPool ==
    { [NewCommit("0") EXCEPT !.Type = ty, !.Scope = sc,
                             !.Description = <<"d">>] :
        ty \in {<<"F">>, <<"x">>},
        sc \in {EmptyStr, <<"s">>, <<"x">>} }

\* Batches of commits with their position as identifier.
Batches ==
    { [k \in 1..n |-> [b[k] EXCEPT !.Id = ToString(k)]] :
        n \in 0..MaxBatch, b \in [1..MaxBatch -> BatchPool] }

BatchConfigs ==
    { Config(types, required, scopes, 0, 0, NilSet, NilSet) :
        types \in {NilSet, NewCaseInsensitiveSet(<<<<"f">>>>)},
        required \in BOOLEAN,
        scopes \in {NilSet, NewCaseInsensitiveSet(<<<<"S">>>>)} }

InitBatch ==
    /\ pc = "loop"
    /\ line = EmptyStr
    /\ msg = EmptyStr
    /\ c = NewCommit("0")
    /\ err = Nil
    /\ footer = NoFooter
    /\ isBreaking = FALSE
    /\ cfg \in BatchConfigs
    /\ commits \in Batches
    /\ i = 0
    /\ parseErr = NewParseError
    /\ walk = <<>>
    /\ parseArg = <<>>
    /\ sv = <<>>
    /\ strOut = <<>>
    /\ ver = <<>>
    /\ other = <<>>
    /\ third = <<>>
    /\ identA = <<>>
    /\ identB = <<>>
    /\ result = 0
    /\ nextVer = <<>>
    /\ cls = 0
    /\ filters = <<>>
    /\ outputs = <<>>
    /\ policyErr = <<>>
    /\ numCommits = 0
    /\ impact = 0
    /\ stdout = <<>>
    /\ exitCode = 0
    /\ paragraph = <<>>
    /\ extracted = <<>>

\* ApplyPolicy returning while commits are left, once an error was found.
ApplyPolicyReturnEarly ==
    /\ pc = "loop"
    /\ i = Len(commits) \/ HasErrors(parseErr)
    /\ err' = IF HasErrors(parseErr) THEN parseErr ELSE Nil
    /\ pc' = "done"
    /\ UNCHANGED <<line, msg, c, footer, isBreaking, cfg, commits, i,
                   parseErr, walk, parseArg, sv, strOut, ver, other, third,
                   identA, identB, result, nextVer, cls, filters, outputs,
                   policyErr, numCommits, impact, stdout, exitCode,
                   paragraph, extracted>>

\* One iteration of the loop of the batch ApplyPolicy over commits.
ApplyPolicyLoop ==
    /\ pc = "loop"
    /\ i < Len(commits)
    /\ LET e == ApplyPolicy(commits[i + 1], cfg) IN
        parseErr' = IF e # Nil THEN AppendError(parseErr, e) ELSE parseErr
    /\ i' = i + 1
    /\ UNCHANGED <<pc, line, msg, c, err, footer, isBreaking, cfg, commits,
                   walk, parseArg, sv, strOut, ver, other, third, identA,
                   identB, result, nextVer, cls, filters, outputs, policyErr,
                   numCommits, impact, stdout, exitCode, paragraph,
                   extracted>>

\* The end of the batch ApplyPolicy: the aggregate when it has errors.
ApplyPolicyReturn ==
    /\ pc = "loop"
    /\ i = Len(commits)
    /\ err' = IF HasErrors(parseErr) THEN parseErr ELSE Nil
    /\ pc' = "done"
    /\ UNCHANGED <<line, msg, c, footer, isBreaking, cfg, commits, i,
                   parseErr, walk, parseArg, sv, strOut, ver, other, third,
                   identA, identB, result, nextVer, cls, filters, outputs,
                   policyErr, numCommits, impact, stdout, exitCode,
                   paragraph, extracted>>

NextBatch == ApplyPolicyLoop \/ ApplyPolicyReturn

SpecBatch == InitBatch /\ [][NextBatch]_vars

\* The commits of the batch that Commit.ApplyPolicy finds in violation.
Violating == SelectSeq(commits, LAMBDA cm : ApplyPolicy(cm, cfg) # Nil)

\* C10: when the batch ApplyPolicy has returned, every commit of the batch
\* was checked, the result is nil exactly when no commit violates the policy,
\* and otherwise the aggregate holds exactly one entry per violating commit,
\* the error of that commit, in batch order.
C10_BatchReportsAll ==
    pc = "done" =>
        /\ i = Len(commits)
        /\ err = Nil <=> Violating = <<>>
        /\ err # Nil =>
               err = <<"ParseError",
                       [k \in 1..Len(Violating) |-> ApplyPolicy(Violating[k], cfg)]>>

\* A batch whose first and last commits violate the policy and whose second
\* commit does not.
C10_WitnessTwoViolations ==
    /\ pc = "done"
    /\ Len(commits) = MaxBatch
    /\ ApplyPolicy(commits[1], cfg) # Nil
    /\ ApplyPolicy(commits[2], cfg) = Nil
    /\ ApplyPolicy(commits[Len(commits)], cfg) # Nil
    /\ Len(err[2]) = Len(commits) - 1

-----------------------------------------------------------------------------
(* Specification of ParseRange over bounded ranges *)

\* strings.HasPrefix
HasPrefix(s, prefix) ==
    Len(prefix) <= Len(s) /\ SubSeq(s, 1, Len(prefix)) = prefix

\* isExcluded comparing the message as written, not in lower case.
isExcludedCaseSensitive(m, cf) ==
    IF cf.Exclude.Prefixes.isNil THEN FALSE
    ELSE \E prefix \in DOMAIN cf.Exclude.Prefixes.m : HasPrefix(m, prefix)

\* isExcluded: the keys of the set are the prefixes in lower case.
isExcluded(m, cf) ==
    IF cf.Exclude.Prefixes.isNil THEN FALSE
    ELSE \E prefix \in DOMAIN cf.Exclude.Prefixes.m :
             HasPrefix(ToLower(m), prefix)

\* A commit of the repository: its id (which stands for the short id too)
\* and its message.
GitCommit(id, message) == [Id |-> id, Message |-> message]

\* The error of a git operation (opening the repository, pushing the range,
\* looking a commit up during the walk).
ErrGit == <<"git error">>

MaxWalk == 3

RangeMessages ==
    { <<"f", ":", " ", "d">>,
      <<"F", ":", " ", "d">>,
      <<"f">>,
      <<"M", "e", "r", "g", "e", " ", "f">>,
      <<"f", ":", " ", "d", NewLine, "t">> }

\* Ranges of commits with their position as identifier.
Ranges ==
    { [k \in 1..n |-> GitCommit(ToString(k), b[k])] :
        n \in 0..MaxWalk, b \in [1..MaxWalk -> RangeMessages] }

RangeConfigs ==
    { WithExclude(NoConfig, prefixes) :
        prefixes \in { NilSet,
                       NewCaseInsensitiveSet(<<>>),
                       NewCaseInsensitiveSet(<<<<"M", "e", "r", "g", "e">>>>),
                       NewCaseInsensitiveSet(<<<<"m", "e", "r", "g", "e">>,
                                               <<"f", ":">>>>) } }

InitRange ==
    /\ pc = "walk"
    /\ line = EmptyStr
    /\ msg = EmptyStr
    /\ c = NewCommit("0")
    /\ err = Nil
    /\ footer = NoFooter
    /\ isBreaking = FALSE
    /\ cfg \in RangeConfigs
    /\ commits = <<>>
    /\ i = 0
    /\ parseErr = NewParseError
    /\ walk \in Ranges
    /\ parseArg = <<>>
    /\ sv = <<>>
    /\ strOut = <<>>
    /\ ver = <<>>
    /\ other = <<>>
    /\ third = <<>>
    /\ identA = <<>>
    /\ identB = <<>>
    /\ result = 0
    /\ nextVer = <<>>
    /\ cls = 0
    /\ filters = <<>>
    /\ outputs = <<>>
    /\ policyErr = <<>>
    /\ numCommits = 0
    /\ impact = 0
    /\ stdout = <<>>
    /\ exitCode = 0
    /\ paragraph = <<>>
    /\ extracted = <<>>

\* One call of the function IterRange hands to revwalk.Iterate, with the
\* callback of ParseRange.
IterRangeVisit ==
    /\ pc = "walk"
    /\ i < Len(walk)
    /\ LET gitCommit == walk[i + 1]
           r == setMessage(NewCommit(gitCommit.Id), gitCommit.Message)
       IN IF isExcluded(gitCommit.Message, cfg)
          THEN UNCHANGED <<commits, parseErr>>
          ELSE IF r.err # Nil
          THEN parseErr' = AppendError(parseErr, r.err) /\ UNCHANGED commits
          ELSE commits' = Append(commits, r.c) /\ UNCHANGED parseErr
    /\ i' = i + 1
    /\ UNCHANGED <<pc, line, msg, c, err, footer, isBreaking, cfg, walk,
                   parseArg, sv, strOut, ver, other, third, identA, identB,
                   result, nextVer, cls, filters, outputs, policyErr,
                   numCommits, impact, stdout, exitCode, paragraph,
                   extracted>>

\* ParseRange returning the error of git: before the walk, or from
\* revwalk.Iterate during it.
ParseRangeGitError ==
    /\ pc = "walk"
    /\ err' = ErrGit
    /\ pc' = "failed"
    /\ UNCHANGED <<line, msg, c, footer, isBreaking, cfg, commits, i,
                   parseErr, walk, parseArg, sv, strOut, ver, other, third,
                   identA, identB, result, nextVer, cls, filters, outputs,
                   policyErr, numCommits, impact, stdout, exitCode,
                   paragraph, extracted>>

\* ParseRange returning after the walk.
ParseRangeReturn ==
    /\ pc = "walk"
    /\ i = Len(walk)
    /\ err' = IF HasErrors(parseErr) THEN parseErr ELSE Nil
    /\ pc' = "done"
    /\ UNCHANGED <<line, msg, c, footer, isBreaking, cfg, commits, i,
                   parseErr, walk, parseArg, sv, strOut, ver, other, third,
                   identA, identB, result, nextVer, cls, filters, outputs,
                   policyErr, numCommits, impact, stdout, exitCode,
                   paragraph, extracted>>

NextRange == IterRangeVisit \/ ParseRangeGitError \/ ParseRangeReturn

SpecRange == InitRange /\ [][NextRange]_vars

\* m begins with p when case is ignored.
BeginsWithIgnoringCase(m, p) ==
    Len(p) <= Len(m) /\ EqualFold(SubSeq(m, 1, Len(p)), p)

\* The message of g begins with a configured exclusion prefix.
IsSkipped(g, cf) ==
    \E p \in Originals(cf.Exclude.Prefixes) :
        BeginsWithIgnoringCase(g.Message, p)

\* The result of parsing the message of g.
Parsed(g) == setMessage(NewCommit(g.Id), g.Message)

\* The commits visited so far.
Visited == SubSeq(walk, 1, i)

VisitedSkipped == SelectSeq(Visited, LAMBDA g : IsSkipped(g, cfg))

VisitedKept ==
    SelectSeq(Visited, LAMBDA g : ~IsSkipped(g, cfg) /\ Parsed(g).err = Nil)

VisitedFailed ==
    SelectSeq(Visited, LAMBDA g : ~IsSkipped(g, cfg) /\ Parsed(g).err # Nil)

\* C11: ParseRange partitions the commits of the range. At every point of
\* the traversal each visited commit is in exactly one of three places:
\* skipped (its message begins, case ignored, with a configured exclusion
\* prefix: not parsed, not reported, not counted), in the returned commits
\* (it parsed without error) or in the aggregate parse error (it failed to
\* parse); both lists are in traversal order; and when ParseRange returns
\* after the walk every commit of the range was visited, so a failing commit
\* never stops the traversal, and the error returned is the aggregate
\* exactly when some commit failed.
C11_ParseRangePartitions ==
    /\ commits = [k \in 1..Len(VisitedKept) |-> Parsed(VisitedKept[k]).c]
    /\ parseErr = <<"ParseError",
                    [k \in 1..Len(VisitedFailed) |-> Parsed(VisitedFailed[k]).err]>>
    /\ Len(commits) + Len(parseErr[2]) + Len(VisitedSkipped) = i
    /\ pc = "done" =>
           /\ i = Len(walk)
           /\ err = IF Len(VisitedFailed) > 0 THEN parseErr ELSE Nil

\* A range whose first commit fails to parse, whose second commit is skipped
\* by an upper-case message against a lower-case prefix, and whose last
\* commit is returned.
C11_WitnessFailedSkippedKept ==
    /\ pc = "done"
    /\ Len(walk) = MaxWalk
    /\ ~IsSkipped(walk[1], cfg) /\ Parsed(walk[1]).err # Nil
    /\ IsSkipped(walk[2], cfg) /\ walk[2].Message[1] = "M"
    /\ Len(commits) >= 1 /\ commits[Len(commits)].Id = ToString(MaxWalk)
    /\ Len(err[2]) >= 1

-----------------------------------------------------------------------------
(* Specification of ParseMessage, the entry point of the commit-msg hook *)

\* ParseMessage: the commit it returns and the error.
ParseMessage(m, cf) == setMessage(NewCommit("0"), m)

\* Messages of the hook: a first line and up to two more lines.
HookMessages ==
    { Join(<<first>> \o tail, <<NewLine>>) :
        first \in RangeMessages,
        tail \in UNION { [1..n -> TailLines] : n \in 0..2 } }

InitParseMessage ==
    /\ pc = "start"
    /\ line = EmptyStr
    /\ msg \in HookMessages
    /\ c = NewCommit("0")
    /\ err = Nil
    /\ footer = NoFooter
    /\ isBreaking = FALSE
    /\ cfg \in RangeConfigs
    /\ commits = <<>>
    /\ i = 0
    /\ parseErr = NewParseError
    /\ walk = <<>>
    /\ parseArg = <<>>
    /\ sv = <<>>
    /\ strOut = <<>>
    /\ ver = <<>>
    /\ other = <<>>
    /\ third = <<>>
    /\ identA = <<>>
    /\ identB = <<>>
    /\ result = 0
    /\ nextVer = <<>>
    /\ cls = 0
    /\ filters = <<>>
    /\ outputs = <<>>
    /\ policyErr = <<>>
    /\ numCommits = 0
    /\ impact = 0
    /\ stdout = <<>>
    /\ exitCode = 0
    /\ paragraph = <<>>
    /\ extracted = <<>>

\* c, err := ParseMessage(msg, cfg); commits is what the caller holds as the
\* commits of the message: the one commit returned.
CallParseMessage ==
    /\ pc = "start"
    /\ LET r == ParseMessage(msg, cfg) IN
        /\ c' = r.c
        /\ commits' = <<r.c>>
        /\ err' = r.err
    /\ pc' = "done"
    /\ UNCHANGED <<line, msg, footer, isBreaking, cfg, i, parseErr, walk,
                   parseArg, sv, strOut, ver, other, third, identA, identB,
                   result, nextVer, cls, filters, outputs, policyErr,
                   numCommits, impact, stdout, exitCode, paragraph,
                   extracted>>

NextParseMessage == CallParseMessage

SpecParseMessage == InitParseMessage /\ [][NextParseMessage]_vars

\* C12: ParseMessage applies the exclusion rule. When it has returned: for
\* a message that begins, case ignored, with a configured exclusion prefix
\* there are no commits and no error; otherwise, for a message that parses,
\* the commits are the single parsed commit and there is no error; otherwise
\* there are no commits and the error is the parse error.
C12_ParseMessageExcludes ==
    pc = "done" =>
        LET g == GitCommit("0", msg) IN
        IF IsSkipped(g, cfg)
        THEN commits = <<>> /\ err = Nil
        ELSE IF Parsed(g).err = Nil
        THEN commits = <<Parsed(g).c>> /\ err = Nil
        ELSE commits = <<>> /\ err = Parsed(g).err

-----------------------------------------------------------------------------
(* Semantic versions: numbers and identifiers *)

Digits == <<"0", "1", "2", "3", "4", "5", "6", "7", "8", "9">>

IsDigit(ch) == \E k \in 1..Len(Digits) : Digits[k] = ch

DigitValue(ch) == (CHOOSE k \in 1..Len(Digits) : Digits[k] = ch) - 1

\* [0-9a-zA-Z-]
IsIdentChar(ch) ==
    \/ IsDigit(ch)
    \/ ch = "-"
    \/ \E k \in 1..Len(UpperCase) : UpperCase[k] = ch \/ LowerCase[k] = ch

\* The value of a string of digits.
RECURSIVE DigitsValue(_)
DigitsValue(ds) ==
    IF Len(ds) = 0 THEN 0
    ELSE 10 * DigitsValue(SubSeq(ds, 1, Len(ds) - 1)) + DigitValue(ds[Len(ds)])

\* strconv.Atoi: an optional sign and at least one digit, nothing else. The
\* strings of the model are too short to leave the range of int.
Atoi(str) ==
    LET signed == Len(str) > 0 /\ str[1] \in {"+", "-"}
        ds == IF signed THEN Tail(str) ELSE str
    IN IF Len(ds) > 0 /\ \A k \in 1..Len(ds) : IsDigit(ds[k])
       THEN [ok |-> TRUE,
             val |-> IF signed /\ str[1] = "-" THEN 0 - DigitsValue(ds)
                     ELSE DigitsValue(ds)]
       ELSE [ok |-> FALSE, val |-> 0]

\* mustUint: the submatches it is given are strings of digits; -1 stands for
\* the panic on any other string.
mustUint(str) ==
    LET r == Atoi(str) IN IF r.ok /\ r.val >= 0 THEN r.val ELSE -1

\* fmt.Sprintf("%d", n) for n >= 0.
RECURSIVE FormatUint(_)
FormatUint(n) ==
    IF n < 10 THEN <<Digits[n + 1]>>
    ELSE FormatUint(n \div 10) \o <<Digits[(n % 10) + 1]>>

\* strings.Split(str, sep) for a separator of one character.
RECURSIVE Split(_, _)
Split(str, sep) ==
    IF \E k \in 1..Len(str) : str[k] = sep
    THEN LET k == CHOOSE k \in 1..Len(str) :
                      /\ str[k] = sep
                      /\ \A j \in 1..(k - 1) : str[j] # sep
         IN <<SubSeq(str, 1, k - 1)>> \o Split(SubSeq(str, k + 1, Len(str)), sep)
    ELSE <<str>>

\* strings.Compare
StringsCompare(a, b) ==
    IF a = b THEN 0 ELSE IF StringLess(a, b) THEN -1 ELSE 1

\* 0|[1-9]\d*
IsNumericIdent(x) ==
    /\ Len(x) > 0
    /\ \A k \in 1..Len(x) : IsDigit(x[k])
    /\ Len(x) > 1 => x[1] # "0"

\* \d*[a-zA-Z-][0-9a-zA-Z-]*
IsAlphanumIdent(x) ==
    /\ \A k \in 1..Len(x) : IsIdentChar(x[k])
    /\ \E k \in 1..Len(x) : ~IsDigit(x[k])

\* [0-9a-zA-Z-]+
IsBuildIdent(x) == Len(x) > 0 /\ \A k \in 1..Len(x) : IsIdentChar(x[k])

\* A slice of strings: the nil slice, or the list of its elements.
NilList == [isNil |-> TRUE, elems |-> <<>>]
List(elems) == [isNil |-> FALSE, elems |-> elems]

\* The struct Semver.
Semver(major, minor, patch, prerelease, build) ==
    [Major |-> major, Minor |-> minor, Patch |-> patch,
     Prerelease |-> prerelease, Build |-> build]

ErrSemver == <<"invalid semantic version specifier">>

\* Every way semverPattern matches str: a is the end of the three numbers,
\* b the end of the prerelease group (b = a: the group did not take part);
\* the build group is what follows b.
SemverParses(str) ==
    { p \in [a : 1..Len(str), b : 1..Len(str)] :
        LET core == Split(SubSeq(str, 1, p.a), ".")
        IN /\ p.a <= p.b
           /\ Len(core) = 3
           /\ \A k \in 1..3 : IsNumericIdent(core[k])
           /\ p.b > p.a =>
                /\ str[p.a + 1] = "-"
                /\ LET ids == Split(SubSeq(str, p.a + 2, p.b), ".")
                   IN \A k \in 1..Len(ids) :
                          IsNumericIdent(ids[k]) \/ IsAlphanumIdent(ids[k])
           /\ p.b < Len(str) =>
                /\ str[p.b + 1] = "+"
                /\ LET ids == Split(SubSeq(str, p.b + 2, Len(str)), ".")
                   IN \A k \in 1..Len(ids) : IsBuildIdent(ids[k]) }

\* semverPattern.FindStringSubmatch: no match (nil), or the named submatches
\* (the pattern matches a string in one way at most).
semverPattern(str) ==
    LET ps == SemverParses(str) IN
    IF ps = {}
    THEN [matched |-> FALSE, major |-> EmptyStr, minor |-> EmptyStr,
          patch |-> EmptyStr, prerelease |-> EmptyStr,
          buildmetadata |-> EmptyStr]
    ELSE LET p == CHOOSE p \in ps : TRUE
             core == Split(SubSeq(str, 1, p.a), ".")
         IN [matched |-> TRUE,
             major |-> core[1], minor |-> core[2], patch |-> core[3],
             prerelease |-> IF p.b > p.a THEN SubSeq(str, p.a + 2, p.b)
                            ELSE EmptyStr,
             buildmetadata |-> IF p.b < Len(str)
                               THEN SubSeq(str, p.b + 2, Len(str))
                               ELSE EmptyStr]

\* A pointer to a Semver: the empty sequence for nil, or the sequence of the
\* one struct it points to.
NilSemver == <<>>

\* Parse without the test of the empty prerelease and build submatches.
ParseAlwaysSplit(str) ==
    LET match == semverPattern(str) IN
    IF ~match.matched THEN [v |-> NilSemver, err |-> ErrSemver]
    ELSE [v |-> <<Semver(mustUint(match.major), mustUint(match.minor),
                         mustUint(match.patch),
                         List(Split(match.prerelease, ".")),
                         List(Split(match.buildmetadata, ".")))>>,
          err |-> Nil]

\* Parse: the pointer returned and the error.
Parse(str) ==
    LET match == semverPattern(str) IN
    IF ~match.matched THEN [v |-> NilSemver, err |-> ErrSemver]
    ELSE [v |-> <<Semver(mustUint(match.major), mustUint(match.minor),
                         mustUint(match.patch),
                         IF match.prerelease # EmptyStr
                         THEN List(Split(match.prerelease, "."))
                         ELSE NilList,
                         IF match.buildmetadata # EmptyStr
                         THEN List(Split(match.buildmetadata, "."))
                         ELSE NilList)>>,
          err |-> Nil]

\* Semver.String
String(v) ==
    FormatUint(v.Major) \o <<".">> \o FormatUint(v.Minor) \o <<".">>
        \o FormatUint(v.Patch)
        \o (IF ~v.Prerelease.isNil
            THEN <<"-">> \o Join(v.Prerelease.elems, <<".">>) ELSE EmptyStr)
        \o (IF ~v.Build.isNil
            THEN <<"+">> \o Join(v.Build.elems, <<".">>) ELSE EmptyStr)

-----------------------------------------------------------------------------
(* Semantic versions: precedence and increments *)

\* compareIdent with a numeric identifier lower than any other identifier
\* whichever side it is on.
compareIdentNumericFirst(a, b) ==
    LET x == Atoi(a)
        y == Atoi(b)
    IN IF x.ok /\ y.ok
       THEN IF x.val < y.val THEN -1 ELSE IF x.val > y.val THEN 1 ELSE 0
       ELSE IF x.ok \/ y.ok THEN -1
       ELSE StringsCompare(a, b)

\* compareIdent
compareIdent(a, b) ==
    LET x == Atoi(a)
        y == Atoi(b)
    IN IF x.ok /\ y.ok
       THEN IF x.val < y.val THEN -1 ELSE IF x.val > y.val THEN 1 ELSE 0
       ELSE IF x.ok THEN -1
       ELSE IF y.ok THEN 1
       ELSE StringsCompare(a, b)

\* The loop of Compare over the prerelease identifiers from index k (from 0)
\* up to n: the first result that is not 0, or 0.
RECURSIVE comparePrerelease(_, _, _, _)
comparePrerelease(p1, p2, k, n) ==
    IF k >= n THEN 0
    ELSE LET r == compareIdent(p1[k + 1], p2[k + 1])
         IN IF r # 0 THEN r ELSE comparePrerelease(p1, p2, k + 1, n)

\* Compare without the comparison of the numbers of identifiers.
CompareNoLength(v, w) ==
    LET n1 == Len(v.Prerelease.elems)
        n2 == Len(w.Prerelease.elems)
        n == IF n1 < n2 THEN n1 ELSE n2
    IN IF v.Major < w.Major THEN -1 ELSE IF v.Major > w.Major THEN 1
       ELSE IF v.Minor < w.Minor THEN -1 ELSE IF v.Minor > w.Minor THEN 1
       ELSE IF v.Patch < w.Patch THEN -1 ELSE IF v.Patch > w.Patch THEN 1
       ELSE IF n1 = 0 /\ n2 = 0 THEN 0
       ELSE IF n1 > 0 /\ n2 = 0 THEN -1
       ELSE IF n1 = 0 /\ n2 > 0 THEN 1
       ELSE comparePrerelease(v.Prerelease.elems, w.Prerelease.elems, 0, n)

\* Semver.Compare of the struct v with the struct w (other).
Compare(v, w) ==
    LET n1 == Len(v.Prerelease.elems)
        n2 == Len(w.Prerelease.elems)
        n == IF n1 < n2 THEN n1 ELSE n2
    IN IF v.Major < w.Major THEN -1 ELSE IF v.Major > w.Major THEN 1
       ELSE IF v.Minor < w.Minor THEN -1 ELSE IF v.Minor > w.Minor THEN 1
       ELSE IF v.Patch < w.Patch THEN -1 ELSE IF v.Patch > w.Patch THEN 1
       ELSE IF n1 = 0 /\ n2 = 0 THEN 0
       ELSE IF n1 > 0 /\ n2 = 0 THEN -1
       ELSE IF n1 = 0 /\ n2 > 0 THEN 1
       ELSE LET r == comparePrerelease(v.Prerelease.elems,
                                       w.Prerelease.elems, 0, n)
            IN IF r # 0 THEN r
               ELSE IF n1 < n2 THEN -1 ELSE IF n1 > n2 THEN 1 ELSE 0

\* The largest int, scaled down: mustUint takes the numbers from
\* strconv.Atoi, so no component of a parsed version is above it.
MaxInt == 7

\* The components are of type uint, one bit wider than the values of an int,
\* and the sum of two uint wraps around.
UintRange == 2 * (MaxInt + 1)

Uint(n) == n % UintRange

\* Semver.NextMajor: a pointer to a new struct.
NextMajor(v) == <<Semver(Uint(v.Major + 1), 0, 0, NilList, NilList)>>

\* NextMinor that keeps the patch number.
NextMinorKeepsPatch(v) ==
    <<Semver(v.Major, v.Minor + 1, v.Patch, NilList, NilList)>>

\* Semver.NextMinor
NextMinor(v) == <<Semver(v.Major, Uint(v.Minor + 1), 0, NilList, NilList)>>

\* Semver.NextPatch
NextPatch(v) ==
    <<Semver(v.Major, v.Minor, Uint(v.Patch + 1), NilList, NilList)>>

\* NextRelease that keeps the prerelease.
NextReleaseKeepsPrerelease(v) ==
    <<Semver(v.Major, v.Minor, v.Patch, v.Prerelease, NilList)>>

\* Semver.NextRelease
NextRelease(v) == <<Semver(v.Major, v.Minor, v.Patch, NilList, NilList)>>

-----------------------------------------------------------------------------
(* Specification of Semver.Compare over versions that Parse produces *)

MaxIdents == 2

IdentPool == { <<"0">>, <<"1">>, <<"-", "1">>, <<"a">> }

OneZeroZero == <<"1", ".", "0", ".", "0">>

\* Version strings: one core with every list of up to MaxIdents identifiers
\* of the pool as prerelease, other cores, and build metadata.
CompareStrings ==
    { OneZeroZero \o <<"-">> \o Join(ids, <<".">>) :
        ids \in UNION { [1..n -> IdentPool] : n \in 1..MaxIdents } }
        \cup { OneZeroZero,
               <<"1", ".", "0", ".", "1">>,
               <<"1", ".", "1", ".", "0">>,
               <<"2", ".", "0", ".", "0">>,
               <<"0", ".", "1", "0", ".", "9">>,
               OneZeroZero \o <<"+", "b">>,
               OneZeroZero \o <<"-", "a", "+", "b", ".", "0">>,
               <<"1", ".", "0", ".", "1", "-", "0">> }

\* The pointers Parse returns for them.
CompareVersions == { Parse(x).v : x \in CompareStrings }

InitCompare ==
    /\ pc = "start"
    /\ line = EmptyStr
    /\ msg = EmptyStr
    /\ c = NewCommit("0")
    /\ err = Nil
    /\ footer = NoFooter
    /\ isBreaking = FALSE
    /\ cfg = NoConfig
    /\ commits = <<>>
    /\ i = 0
    /\ parseErr = NewParseError
    /\ walk = <<>>
    /\ parseArg = <<>>
    /\ sv = <<>>
    /\ strOut = <<>>
    /\ ver \in CompareVersions
    /\ other \in CompareVersions
    /\ third \in CompareVersions
    /\ identA = <<>>
    /\ identB = <<>>
    /\ result = 0
    /\ nextVer = <<>>
    /\ cls = 0
    /\ filters = <<>>
    /\ outputs = <<>>
    /\ policyErr = <<>>
    /\ numCommits = 0
    /\ impact = 0
    /\ stdout = <<>>
    /\ exitCode = 0
    /\ paragraph = <<>>
    /\ extracted = <<>>

\* result := ver.Compare(other)
CallCompare ==
    /\ pc = "start"
    /\ result' = Compare(ver[1], other[1])
    /\ pc' = "done"
    /\ UNCHANGED <<line, msg, c, err, footer, isBreaking, cfg, commits, i,
                   parseErr, walk, parseArg, sv, strOut, ver, other, third,
                   identA, identB, nextVer, cls, filters, outputs, policyErr,
                   numCommits, impact, stdout, exitCode, paragraph,
                   extracted>>

NextCompare == CallCompare

SpecCompare == InitCompare /\ [][NextCompare]_vars

\* C13: Compare is a total order on the versions Parse produces. When
\* ver.Compare(other) has returned, its result is the negation of
\* other.Compare(ver), ver.Compare(ver) is 0, and if the result is at most 0
\* and other.Compare(third) is at most 0 then ver.Compare(third) is at most 0.
C13_CompareTotalOrder ==
    pc = "done" =>
        /\ result = 0 - Compare(other[1], ver[1])
        /\ Compare(ver[1], ver[1]) = 0
        /\ (result <= 0 /\ Compare(other[1], third[1]) <= 0) =>
               Compare(ver[1], third[1]) <= 0

\* Three versions with different prerelease lists, in strictly rising order.
C13_WitnessChain ==
    /\ pc = "done"
    /\ result = -1
    /\ Compare(other[1], third[1]) = -1
    /\ Len(ver[1].Prerelease.elems) = MaxIdents
    /\ Len(other[1].Prerelease.elems) = 1
    /\ Len(third[1].Prerelease.elems) = MaxIdents

-----------------------------------------------------------------------------
(* Specification of compareIdent over prerelease identifiers *)

MaxIdentLen == 2

IdentAlphabet == {"0", "1", "-", "a"}

\* The strings up to MaxIdentLen that the grammar of Parse accepts as
\* prerelease identifiers.
PrereleaseIdents ==
    { x \in UNION { [1..n -> IdentAlphabet] : n \in 1..MaxIdentLen } :
        IsNumericIdent(x) \/ IsAlphanumIdent(x) }

InitIdent ==
    /\ pc = "start"
    /\ line = EmptyStr
    /\ msg = EmptyStr
    /\ c = NewCommit("0")
    /\ err = Nil
    /\ footer = NoFooter
    /\ isBreaking = FALSE
    /\ cfg = NoConfig
    /\ commits = <<>>
    /\ i = 0
    /\ parseErr = NewParseError
    /\ walk = <<>>
    /\ parseArg = <<>>
    /\ sv = <<>>
    /\ strOut = <<>>
    /\ ver = <<>>
    /\ other = <<>>
    /\ third = <<>>
    /\ identA \in PrereleaseIdents
    /\ identB \in PrereleaseIdents
    /\ result = 0
    /\ nextVer = <<>>
    /\ cls = 0
    /\ filters = <<>>
    /\ outputs = <<>>
    /\ policyErr = <<>>
    /\ numCommits = 0
    /\ impact = 0
    /\ stdout = <<>>
    /\ exitCode = 0
    /\ paragraph = <<>>
    /\ extracted = <<>>

\* result := compareIdent(identA, identB)
CallCompareIdent ==
    /\ pc = "start"
    /\ result' = compareIdent(identA, identB)
    /\ pc' = "done"
    /\ UNCHANGED <<line, msg, c, err, footer, isBreaking, cfg, commits, i,
                   parseErr, walk, parseArg, sv, strOut, ver, other, third,
                   identA, identB, nextVer, cls, filters, outputs, policyErr,
                   numCommits, impact, stdout, exitCode, paragraph,
                   extracted>>

NextIdent == CallCompareIdent

SpecIdent == InitIdent /\ [][NextIdent]_vars

\* x is made of digits only.
IsPurelyNumeric(x) == Len(x) > 0 /\ \A k \in 1..Len(x) : IsDigit(x[k])

\* C14: when compareIdent has returned for two prerelease identifiers the
\* grammar accepts: if both are purely numeric (digits only) the result is
\* the comparison of their integer values; if exactly one is purely numeric
\* that one is lower; if neither is, the result is their comparison in byte
\* order. This holds also for identifiers that contain or start with a
\* hyphen.
C14_CompareIdentRule ==
    pc = "done" =>
        IF IsPurelyNumeric(identA) /\ IsPurelyNumeric(identB)
        THEN result = IF DigitsValue(identA) < DigitsValue(identB) THEN -1
                      ELSE IF DigitsValue(identA) > DigitsValue(identB) THEN 1
                      ELSE 0
        ELSE IF IsPurelyNumeric(identA) THEN result = -1
        ELSE IF IsPurelyNumeric(identB) THEN result = 1
        ELSE result = IF identA = identB THEN 0
                      ELSE IF StringLess(identA, identB) THEN -1 ELSE 1

-----------------------------------------------------------------------------
(* Properties of Semver.Compare: the levels of the comparison *)

\* Build metadata a version can carry.
BuildLists == { NilList, List(<<<<"b">>>>), List(<<<<"0">>, <<"c">>>>) }

\* -1, 0 or 1 as m is below, equal to or above n.
Sign(m, n) == IF m < n THEN -1 ELSE IF m > n THEN 1 ELSE 0

\* C15: when ver.Compare(other) has returned, the result is decided by
\* major, then minor, then patch; when these are equal, two versions without
\* prerelease give 0 and a version with a prerelease is lower than one
\* without; when both have prereleases and every compared pair of
\* identifiers is equal, the one with fewer identifiers is lower and equal
\* counts give 0; and replacing the build metadata of either argument leaves
\* the result unchanged.
C15_CompareLevels ==
    pc = "done" =>
        LET a == ver[1]
            b == other[1]
            pa == a.Prerelease.elems
            pb == b.Prerelease.elems
            n == IF Len(pa) < Len(pb) THEN Len(pa) ELSE Len(pb)
        IN /\ IF a.Major # b.Major THEN result = Sign(a.Major, b.Major)
              ELSE IF a.Minor # b.Minor THEN result = Sign(a.Minor, b.Minor)
              ELSE IF a.Patch # b.Patch THEN result = Sign(a.Patch, b.Patch)
              ELSE IF pa = <<>> /\ pb = <<>> THEN result = 0
              ELSE IF pb = <<>> THEN result = -1
              ELSE IF pa = <<>> THEN result = 1
              ELSE (\A k \in 1..n : pa[k] = pb[k]) =>
                       result = Sign(Len(pa), Len(pb))
           /\ \A bd \in BuildLists :
                  /\ Compare([a EXCEPT !.Build = bd], b) = result
                  /\ Compare(a, [b EXCEPT !.Build = bd]) = result

\* A version with build metadata whose prerelease list is the start of the
\* longer list of the other version was found lower.
C15_WitnessShorterList ==
    /\ pc = "done"
    /\ ~ver[1].Build.isNil
    /\ other[1].Build.isNil
    /\ Len(ver[1].Prerelease.elems) = 1
    /\ Len(other[1].Prerelease.elems) = 2
    /\ ver[1].Prerelease.elems[1] = other[1].Prerelease.elems[1]
    /\ result = -1

-----------------------------------------------------------------------------
(* Specification of the increment operations over bounded versions *)

MaxComponent == 2

\* The numbers of a version: the small ones and the largest that Parse
\* yields.
Components == (0..MaxComponent) \cup {MaxInt}

\* Pointers to versions built directly, with and without prerelease and
\* build metadata.
NextVersions ==
    { <<Semver(ma, mi, pa, pre, bd)>> :
        ma \in Components, mi \in Components, pa \in Components,
        pre \in {NilList, List(<<<<"a">>, <<"0">>>>)},
        bd \in {NilList, List(<<<<"b">>>>)} }

InitNext ==
    /\ pc = "start"
    /\ line = EmptyStr
    /\ msg = EmptyStr
    /\ c = NewCommit("0")
    /\ err = Nil
    /\ footer = NoFooter
    /\ isBreaking = FALSE
    /\ cfg = NoConfig
    /\ commits = <<>>
    /\ i = 0
    /\ parseErr = NewParseError
    /\ walk = <<>>
    /\ parseArg = <<>>
    /\ sv = <<>>
    /\ strOut = <<>>
    /\ ver \in NextVersions
    /\ other = <<>>
    /\ third = <<>>
    /\ identA = <<>>
    /\ identB = <<>>
    /\ result = 0
    /\ nextVer = <<>>
    /\ cls = 0
    /\ filters = <<>>
    /\ outputs = <<>>
    /\ policyErr = <<>>
    /\ numCommits = 0
    /\ impact = 0
    /\ stdout = <<>>
    /\ exitCode = 0
    /\ paragraph = <<>>
    /\ extracted = <<>>

\* nextVer := ver.NextMajor()
CallNextMajor ==
    /\ pc = "start"
    /\ nextVer' = NextMajor(ver[1])
    /\ pc' = "NextMajor"
    /\ UNCHANGED <<line, msg, c, err, footer, isBreaking, cfg, commits, i,
                   parseErr, walk, parseArg, sv, strOut, ver, other, third,
                   identA, identB, result, cls, filters, outputs, policyErr,
                   numCommits, impact, stdout, exitCode, paragraph,
                   extracted>>

\* nextVer := ver.NextMinor()
CallNextMinor ==
    /\ pc = "start"
    /\ nextVer' = NextMinor(ver[1])
    /\ pc' = "NextMinor"
    /\ UNCHANGED <<line, msg, c, err, footer, isBreaking, cfg, commits, i,
                   parseErr, walk, parseArg, sv, strOut, ver, other, third,
                   identA, identB, result, cls, filters, outputs, policyErr,
                   numCommits, impact, stdout, exitCode, paragraph,
                   extracted>>

\* nextVer := ver.NextPatch()
CallNextPatch ==
    /\ pc = "start"
    /\ nextVer' = NextPatch(ver[1])
    /\ pc' = "NextPatch"
    /\ UNCHANGED <<line, msg, c, err, footer, isBreaking, cfg, commits, i,
                   parseErr, walk, parseArg, sv, strOut, ver, other, third,
                   identA, identB, result, cls, filters, outputs, policyErr,
                   numCommits, impact, stdout, exitCode, paragraph,
                   extracted>>

\* nextVer := ver.NextRelease()
CallNextRelease ==
    /\ pc = "start"
    /\ nextVer' = NextRelease(ver[1])
    /\ pc' = "NextRelease"
    /\ UNCHANGED <<line, msg, c, err, footer, isBreaking, cfg, commits, i,
                   parseErr, walk, parseArg, sv, strOut, ver, other, third,
                   identA, identB, result, cls, filters, outputs, policyErr,
                   numCommits, impact, stdout, exitCode, paragraph,
                   extracted>>

NextNext == CallNextMajor \/ CallNextMinor \/ CallNextPatch \/ CallNextRelease

SpecNext == InitNext /\ [][NextNext]_vars

\* The version (major, minor, patch) without prerelease and build.
Release(major, minor, patch) == Semver(major, minor, patch, NilList, NilList)

\* What each increment operation has to return for the version u.
NextResults(u) ==
    /\ pc = "NextMajor" => nextVer = <<Release(u.Major + 1, 0, 0)>>
    /\ pc = "NextMinor" => nextVer = <<Release(u.Major, u.Minor + 1, 0)>>
    /\ pc = "NextPatch" => nextVer = <<Release(u.Major, u.Minor, u.Patch + 1)>>
    /\ pc = "NextRelease" => nextVer = <<Release(u.Major, u.Minor, u.Patch)>>

\* C16: for every version v, when an increment operation has returned, the
\* result of NextMajor is (major+1, 0, 0), of NextMinor (major, minor+1, 0),
\* of NextPatch (major, minor, patch+1) and of NextRelease (major, minor,
\* patch), each with prerelease and build absent; and no step of the four
\* operations modifies v.
C16_NextOperations ==
    /\ [](NextResults(ver[1]))
    /\ [][ver' = ver]_vars

\* NextMinor has returned for a version with a patch number above 0, a
\* prerelease and build metadata.
C16_WitnessMinorResetsPatch ==
    /\ pc = "NextMinor"
    /\ ver[1].Patch > 0
    /\ ~ver[1].Prerelease.isNil /\ ~ver[1].Build.isNil
    /\ nextVer[1].Patch = 0
    /\ nextVer[1].Prerelease.isNil /\ nextVer[1].Build.isNil

-----------------------------------------------------------------------------
(* Specification of Parse followed by String over bounded strings *)

MaxSuffixLen == 4

SuffixAlphabet == {"0", "1", "a", "-", "+", "."}

\* What the strings start with: valid and invalid triples of numbers.
ParseCores ==
    { OneZeroZero,
      <<"0", ".", "1", "0", ".", "1">>,
      <<"0", "1", ".", "0", ".", "0">>,
      <<"1", ".", "0", ".", "0", "0">>,
      <<"1", ".", "0">>,
      <<"1", ".", ".", "0">>,
      <<"v">> \o OneZeroZero,
      OneZeroZero \o <<NewLine>>,
      EmptyStr }

VersionStrings ==
    { core \o suffix :
        core \in ParseCores,
        suffix \in UNION { [1..n -> SuffixAlphabet] : n \in 0..MaxSuffixLen } }

InitParse ==
    /\ pc = "start"
    /\ line = EmptyStr
    /\ msg = EmptyStr
    /\ c = NewCommit("0")
    /\ err = Nil
    /\ footer = NoFooter
    /\ isBreaking = FALSE
    /\ cfg = NoConfig
    /\ commits = <<>>
    /\ i = 0
    /\ parseErr = NewParseError
    /\ walk = <<>>
    /\ parseArg \in VersionStrings
    /\ sv = <<>>
    /\ strOut = <<>>
    /\ ver = <<>>
    /\ other = <<>>
    /\ third = <<>>
    /\ identA = <<>>
    /\ identB = <<>>
    /\ result = 0
    /\ nextVer = <<>>
    /\ cls = 0
    /\ filters = <<>>
    /\ outputs = <<>>
    /\ policyErr = <<>>
    /\ numCommits = 0
    /\ impact = 0
    /\ stdout = <<>>
    /\ exitCode = 0
    /\ paragraph = <<>>
    /\ extracted = <<>>

\* sv, err := Parse(parseArg)
CallParse ==
    /\ pc = "start"
    /\ LET r == Parse(parseArg) IN
        /\ sv' = r.v
        /\ err' = r.err
    /\ pc' = "parsed"
    /\ UNCHANGED <<line, msg, c, footer, isBreaking, cfg, commits, i,
                   parseErr, walk, parseArg, strOut, ver, other, third,
                   identA, identB, result, nextVer, cls, filters, outputs,
                   policyErr, numCommits, impact, stdout, exitCode,
                   paragraph, extracted>>

\* strOut := sv.String(), for the version Parse returned
CallString ==
    /\ pc = "parsed"
    /\ sv # NilSemver
    /\ strOut' = String(sv[1])
    /\ pc' = "done"
    /\ UNCHANGED <<line, msg, c, err, footer, isBreaking, cfg, commits, i,
                   parseErr, walk, parseArg, sv, ver, other, third, identA,
                   identB, result, nextVer, cls, filters, outputs, policyErr,
                   numCommits, impact, stdout, exitCode, paragraph,
                   extracted>>

NextParse == CallParse \/ CallString

SpecParse == InitParse /\ [][NextParse]_vars

\* The index of the first ch in x, or 0.
IndexOf(x, ch) ==
    IF \E k \in 1..Len(x) : x[k] = ch
    THEN CHOOSE k \in 1..Len(x) : x[k] = ch /\ \A j \in 1..(k - 1) : x[j] # ch
    ELSE 0

\* x without its build part: what precedes the first "+".
BeforePlus(x) ==
    IF IndexOf(x, "+") = 0 THEN x ELSE SubSeq(x, 1, IndexOf(x, "+") - 1)

HasBuildPart(x) == IndexOf(x, "+") > 0

HasPrereleasePart(x) == IndexOf(BeforePlus(x), "-") > 0

\* The three parts of a version string: numbers, prerelease, build.
CorePart(x) ==
    IF HasPrereleasePart(x)
    THEN SubSeq(x, 1, IndexOf(BeforePlus(x), "-") - 1)
    ELSE BeforePlus(x)

PrereleasePart(x) ==
    SubSeq(BeforePlus(x), IndexOf(BeforePlus(x), "-") + 1, Len(BeforePlus(x)))

BuildPart(x) == SubSeq(x, IndexOf(x, "+") + 1, Len(x))

\* A number of the grammar: 0, or digits that do not start with 0.
IsGrammarNumber(x) == IsPurelyNumeric(x) /\ (x = <<"0">> \/ x[1] # "0")

\* An identifier of letters, digits and hyphens, not empty.
IsGrammarIdent(x) == Len(x) > 0 /\ \A k \in 1..Len(x) : IsIdentChar(x[k])

\* The canonical grammar: three numbers separated by dots; after "-",
\* identifiers separated by dots, each a number or with a character that is
\* no digit; after "+", identifiers separated by dots.
InGrammar(x) ==
    /\ Len(Split(CorePart(x), ".")) = 3
    /\ \A k \in 1..3 : IsGrammarNumber(Split(CorePart(x), ".")[k])
    /\ HasPrereleasePart(x) =>
           \A k \in 1..Len(Split(PrereleasePart(x), ".")) :
               LET id == Split(PrereleasePart(x), ".")[k]
               IN IsGrammarIdent(id) /\ (IsPurelyNumeric(id) => IsGrammarNumber(id))
    /\ HasBuildPart(x) =>
           \A k \in 1..Len(Split(BuildPart(x), ".")) :
               IsGrammarIdent(Split(BuildPart(x), ".")[k])

\* C17: Parse and String are inverse on valid input. When Parse has
\* returned for a string of the grammar, there is a version and no error,
\* String of the version is the string, Parse of that string is the version
\* again, and the prerelease (build) is absent exactly when the string has no
\* '-' ('+') part and is never an empty list; when String has then returned,
\* its result is the string. For a string outside the grammar the error is
\* the invalid-version error and there is no object.
C17_ParseStringInverse ==
    pc \in {"parsed", "done"} =>
        IF InGrammar(parseArg)
        THEN /\ err = Nil
             /\ sv # NilSemver
             /\ String(sv[1]) = parseArg
             /\ Parse(String(sv[1])).v = sv
             /\ sv[1].Prerelease.isNil <=> ~HasPrereleasePart(parseArg)
             /\ sv[1].Build.isNil <=> ~HasBuildPart(parseArg)
             /\ ~sv[1].Prerelease.isNil => sv[1].Prerelease.elems # <<>>
             /\ ~sv[1].Build.isNil => sv[1].Build.elems # <<>>
             /\ pc = "done" => strOut = parseArg
        ELSE err = ErrSemver /\ sv = NilSemver

\* A string with a prerelease part and a build part was parsed and written
\* back.
C17_WitnessRoundTrip ==
    /\ pc = "done"
    /\ ~sv[1].Prerelease.isNil /\ ~sv[1].Build.isNil
    /\ sv[1].Minor > 9
    /\ strOut = parseArg

-----------------------------------------------------------------------------
(* Specification of Commit.Classification over bounded commits and
   configurations *)

\* The constants of the classification, in order of severity.
Breaking == 0
Minor == 1
Patch == 2
Uncategorized == 3

\* Classification with the patch types looked up before the minor types.
ClassificationPatchFirst(cm, cf) ==
    IF cm.IsBreaking THEN Breaking
    ELSE IF Contains(cf.Policy.Type.Patch, cm.Type) THEN Patch
    ELSE IF Contains(cf.Policy.Type.Minor, cm.Type) THEN Minor
    ELSE Uncategorized

\* Commit.Classification
Classification(cm, cf) ==
    IF cm.IsBreaking THEN Breaking
    ELSE IF Contains(cf.Policy.Type.Minor, cm.Type) THEN Minor
    ELSE IF Contains(cf.Policy.Type.Patch, cm.Type) THEN Patch
    ELSE Uncategorized

TypeFeat == <<"f", "e", "a", "t">>
TypeFix == <<"f", "i", "x">>
TypeChore == <<"c", "h", "o", "r", "e">>

\* The default configuration with 'fix' among the minor types.
DefaultFixMinor ==
    WithImpactTypes(Config(NilSet, FALSE, NilSet, 1, 0, NilSet, NilSet),
                    NewCaseInsensitiveSet(<<TypeFeat, TypeFix>>),
                    NilSet)

\* config.Default()
Default ==
    WithImpactTypes(Config(NilSet, FALSE, NilSet, 1, 0, NilSet, NilSet),
                    NewCaseInsensitiveSet(<<TypeFeat>>),
                    NewCaseInsensitiveSet(<<TypeFix>>))

\* Commits as setMessage leaves them, breaking by the '!' or by a footer.
ClassCommits ==
    { [NewCommit("0") EXCEPT !.Type = ty, !.Description = <<"d">>,
                             !.IsExclaimed = ex, !.IsBreaking = ex \/ br] :
        ty \in {TypeFeat, <<"F", "e", "a", "t">>, TypeFix, <<"F", "I", "X">>,
                TypeChore},
        ex \in BOOLEAN, br \in BOOLEAN }

ImpactTypeSets ==
    { NilSet,
      NewCaseInsensitiveSet(<<TypeFeat>>),
      NewCaseInsensitiveSet(<<TypeFix>>),
      NewCaseInsensitiveSet(<<<<"F", "E", "A", "T">>, TypeFix>>) }

ClassConfigs ==
    { WithImpactTypes(NoConfig, minor, patch) :
        minor \in ImpactTypeSets, patch \in ImpactTypeSets }

InitClass ==
    /\ pc = "start"
    /\ line = EmptyStr
    /\ msg = EmptyStr
    /\ c \in ClassCommits
    /\ err = Nil
    /\ footer = NoFooter
    /\ isBreaking = FALSE
    /\ cfg \in ClassConfigs
    /\ commits = <<>>
    /\ i = 0
    /\ parseErr = NewParseError
    /\ walk = <<>>
    /\ parseArg = <<>>
    /\ sv = <<>>
    /\ strOut = <<>>
    /\ ver = <<>>
    /\ other = <<>>
    /\ third = <<>>
    /\ identA = <<>>
    /\ identB = <<>>
    /\ result = 0
    /\ nextVer = <<>>
    /\ cls = 0
    /\ filters = <<>>
    /\ outputs = <<>>
    /\ policyErr = <<>>
    /\ numCommits = 0
    /\ impact = 0
    /\ stdout = <<>>
    /\ exitCode = 0
    /\ paragraph = <<>>
    /\ extracted = <<>>

\* cls := c.Classification(cfg)
CallClassification ==
    /\ pc = "start"
    /\ cls' = Classification(c, cfg)
    /\ pc' = "done"
    /\ UNCHANGED <<line, msg, c, err, footer, isBreaking, cfg, commits, i,
                   parseErr, walk, parseArg, sv, strOut, ver, other, third,
                   identA, identB, result, nextVer, filters, outputs,
                   policyErr, numCommits, impact, stdout, exitCode,
                   paragraph, extracted>>

NextClass == CallClassification

SpecClass == InitClass /\ [][NextClass]_vars

\* C18: when Classification has returned for a commit, the result is
\* Breaking whenever the commit is breaking, whatever its type; otherwise
\* Minor when its type is, case ignored, among the configured minor types;
\* otherwise Patch when it is among the patch types; otherwise
\* Uncategorized. A type listed in both sets is Minor.
C18_ClassificationOrder ==
    pc = "done" =>
        cls = IF c.IsBreaking THEN Breaking
              ELSE IF OccursIn(c.Type, cfg.Policy.Type.Minor) THEN Minor
              ELSE IF OccursIn(c.Type, cfg.Policy.Type.Patch) THEN Patch
              ELSE Uncategorized

\* A commit that is not breaking, with a type listed in both sets in another
\* case, was classified Minor.
C18_WitnessBothSets ==
    /\ pc = "done"
    /\ ~c.IsBreaking
    /\ c.Type = TypeFeat
    /\ OccursIn(c.Type, cfg.Policy.Type.Minor)
    /\ OccursIn(c.Type, cfg.Policy.Type.Patch)
    /\ c.Type \notin Originals(cfg.Policy.Type.Minor)
    /\ cls = Minor

-----------------------------------------------------------------------------
(* The command line of conch: filters, outputs, and the output stage of
   main over the commits of a revision range *)

\* cli.Selections
Selections(breaking, minor, patch, uncategorized) ==
    [Breaking |-> breaking, Minor |-> minor, Patch |-> patch,
     Uncategorized |-> uncategorized]

\* Selections.Any
SelectionsAny(s) == s.Breaking \/ s.Minor \/ s.Patch \/ s.Uncategorized

\* cli.Filters
Filters(types, scopes, selections) ==
    [Types |-> types, Scopes |-> scopes, Selections |-> selections]

\* Filters.Any
FiltersAny(f) == ~f.Types.isNil \/ ~f.Scopes.isNil \/ SelectionsAny(f.Selections)

\* cli.Outputs
Outputs(list, format, count, impactFlag, bumpVersion) ==
    [List |-> list, Format |-> format, Count |-> count, Impact |-> impactFlag,
     BumpVersion |-> bumpVersion]

\* Outputs.Any
OutputsAny(o) ==
    o.List \/ o.Format # EmptyStr \/ o.Count \/ o.Impact
        \/ o.BumpVersion # EmptyStr

\* Summary without the scope.
SummaryNoScope(cm) ==
    cm.Type
        \o (IF cm.IsBreaking THEN <<"!">> ELSE EmptyStr)
        \o <<":", " ">> \o cm.Description

\* Commit.Summary
Summary(cm) ==
    cm.Type
        \o (IF cm.Scope # EmptyStr THEN <<"(">> \o cm.Scope \o <<")">>
            ELSE EmptyStr)
        \o (IF cm.IsBreaking THEN <<"!">> ELSE EmptyStr)
        \o <<":", " ">> \o cm.Description

\* The short identifier of a commit: the identifiers of the ranges are one
\* character long and stand for the abbreviated hash too.
ShortId(cm) == <<cm.Id>>

\* The template {{.ShortId}}\n as cli.Template leaves it.
IdTemplate ==
    <<"{", "{", ".", "S", "h", "o", "r", "t", "I", "d", "}", "}", NewLine>>

\* tpl.Execute(os.Stdout, c) for the template above: the text written.
Execute(format, cm) == ShortId(cm) \o <<NewLine>>

\* fmt.Printf("%s: %s\n", c.ShortId, c.Summary()): the text written.
ListLine(cm) == ShortId(cm) \o <<":", " ">> \o Summary(cm) \o <<NewLine>>

\* The names main prints for the four classifications, indexed from 1.
ImpactNames ==
    << <<"b", "r", "e", "a", "k", "i", "n", "g">>,
       <<"m", "i", "n", "o", "r">>,
       <<"p", "a", "t", "c", "h">>,
       <<"u", "n", "c", "a", "t", "e", "g", "o", "r", "i", "z", "e", "d">> >>

\* The callback of ParseRange: the commit r.c or the error r.err of one
\* commit is added to what was collected.
collect(collected, r) ==
    IF r.err # Nil
    THEN [collected EXCEPT !.parseErr = AppendError(@, r.err)]
    ELSE [collected EXCEPT !.commits = Append(@, r.c)]

\* The walk of IterRange with the callback of ParseRange over the first n
\* commits of w: the commits and the aggregate error collected.
RECURSIVE iterRange(_, _, _)
iterRange(w, cf, n) ==
    IF n = 0 THEN [commits |-> <<>>, parseErr |-> NewParseError]
    ELSE IF isExcluded(w[n].Message, cf) THEN iterRange(w, cf, n - 1)
    ELSE collect(iterRange(w, cf, n - 1),
                 setMessage(NewCommit(w[n].Id), w[n].Message))

\* What ParseRange returns with the commits and errors collected: the error
\* of git when it failed, else the aggregate when it has errors.
returned(collected, gitFailed) ==
    [commits |-> collected.commits,
     err |-> IF gitFailed THEN ErrGit
             ELSE IF HasErrors(collected.parseErr) THEN collected.parseErr
             ELSE Nil]

\* ParseRange when git fails after n commits were visited (gitFailed) or
\* when the walk ends: the commits and the error returned.
ParseRange(w, cf, n, gitFailed) == returned(iterRange(w, cf, n), gitFailed)

\* The batch ApplyPolicy: the error returned for commits k.. of cs, e being
\* the aggregate so far.
RECURSIVE applyPolicyFrom(_, _, _, _)
applyPolicyFrom(cs, cf, k, e) ==
    IF k > Len(cs) THEN (IF HasErrors(e) THEN e ELSE Nil)
    ELSE LET er == ApplyPolicy(cs[k], cf) IN
         applyPolicyFrom(cs, cf, k + 1,
                         IF er # Nil THEN AppendError(e, er) ELSE e)

BatchApplyPolicy(cs, cf) == applyPolicyFrom(cs, cf, 1, NewParseError)

\* Filters that let a commit pass only when it also keeps the policy.
PassesFiltersAndPolicy(cm, f) ==
    /\ f.Types.isNil \/ Contains(f.Types, cm.Type)
    /\ f.Scopes.isNil \/ Contains(f.Scopes, cm.Scope)
    /\ ApplyPolicy(cm, cfg) = Nil

\* The commit passes the --types and --scopes filters of main.
PassesFilters(cm, f) ==
    /\ f.Types.isNil \/ Contains(f.Types, cm.Type)
    /\ f.Scopes.isNil \/ Contains(f.Scopes, cm.Scope)

\* The value of `selected` in the loop of main for a commit classified k.
IsSelected(k, f) ==
    \/ ~SelectionsAny(f.Selections)
    \/ f.Selections.Breaking /\ k = Breaking
    \/ f.Selections.Minor /\ k = Minor
    \/ f.Selections.Patch /\ k = Patch
    \/ f.Selections.Uncategorized /\ k = Uncategorized

\* An update of the impact that keeps the classification seen last.
moreSevereLast(k, imp) == k

\* The update of the impact at the end of the loop of main.
moreSevere(k, imp) == IF k < imp THEN k ELSE imp

\* The loop of main over the commits of cs from index k on, imp being the
\* impact so far: the impact after the loop.
RECURSIVE reduceImpact(_, _, _, _, _)
reduceImpact(cs, cf, f, k, imp) ==
    IF k > Len(cs) THEN imp
    ELSE IF /\ PassesFilters(cs[k], f)
            /\ IsSelected(Classification(cs[k], cf), f)
    THEN reduceImpact(cs, cf, f, k + 1,
                      moreSevere(Classification(cs[k], cf), imp))
    ELSE reduceImpact(cs, cf, f, k + 1, imp)

\* The switch of main with the cases for Minor and Patch exchanged.
bumpSwapped(v, k) ==
    IF k = Breaking THEN NextMajor(v)
    ELSE IF k = Minor THEN NextPatch(v)
    ELSE IF k = Patch THEN NextMinor(v)
    ELSE NextRelease(v)

\* The switch of main on the aggregate impact.
bump(v, k) ==
    IF k = Breaking THEN NextMajor(v)
    ELSE IF k = Minor THEN NextMinor(v)
    ELSE IF k = Patch THEN NextPatch(v)
    ELSE NextRelease(v)

MaxMainWalk == 2

TypeScope == <<"s">>

\* Messages of the commits of a range: three types, a scope, a breaking
\* change by '!' and by footer, and a message that is not conventional.
MainMessages ==
    { TypeFeat \o <<":", " ", "d">>,
      TypeFix \o <<":", " ", "d">>,
      TypeChore \o <<":", " ", "d">>,
      TypeFix \o <<"(", "s", ")", ":", " ", "d">>,
      TypeFeat \o <<"!", ":", " ", "d">>,
      TypeFix }

MainRanges ==
    { [k \in 1..n |-> GitCommit(ToString(k), b[k])] :
        n \in 0..MaxMainWalk, b \in [1..MaxMainWalk -> MainMessages] }

\* The default configuration, and the default with 'fix' the only type the
\* policy allows.
MainConfigs ==
    { Default,
      [Default EXCEPT !.Policy.Type.Types = NewCaseInsensitiveSet(<<TypeFix>>)] }

MainFilters ==
    { Filters(types, scopes, selections) :
        types \in { NilSet, NewCaseInsensitiveSet(<<TypeFix>>) },
        scopes \in { NilSet, NewCaseInsensitiveSet(<<TypeScope>>) },
        selections \in { Selections(FALSE, FALSE, FALSE, FALSE),
                         Selections(TRUE, FALSE, FALSE, FALSE),
                         Selections(FALSE, FALSE, TRUE, TRUE) } }

\* The versions given to --bump-version: a release, a major version zero
\* with prerelease and build metadata, and a string that is no version.
BumpVersions ==
    { OneZeroZero,
      <<"0", ".", "1", ".", "2", "-", "a", "+", "b">>,
      <<"1", ".">> }

\* At most one output flag is given (the flag group of main).
MainOutputs ==
    { Outputs(FALSE, EmptyStr, FALSE, FALSE, EmptyStr),
      Outputs(TRUE, EmptyStr, FALSE, FALSE, EmptyStr),
      Outputs(FALSE, IdTemplate, FALSE, FALSE, EmptyStr),
      Outputs(FALSE, EmptyStr, TRUE, FALSE, EmptyStr),
      Outputs(FALSE, EmptyStr, FALSE, TRUE, EmptyStr) }
    \cup { Outputs(FALSE, EmptyStr, FALSE, FALSE, b) : b \in BumpVersions }

\* The error of config.Discover or config.Open.
ErrConfig == <<"config error">>

InitMain ==
    /\ pc = "flags"
    /\ line = EmptyStr
    /\ msg = EmptyStr
    /\ c = NewCommit("0")
    /\ err = Nil
    /\ footer = NoFooter
    /\ isBreaking = FALSE
    /\ cfg \in MainConfigs
    /\ commits = <<>>
    /\ i = 0
    /\ parseErr = Nil
    /\ walk \in MainRanges
    /\ parseArg = <<>>
    /\ sv = NilSemver
    /\ strOut = <<>>
    /\ ver = <<>>
    /\ other = <<>>
    /\ third = <<>>
    /\ identA = <<>>
    /\ identB = <<>>
    /\ result = 0
    /\ nextVer = NilSemver
    /\ cls = 0
    /\ filters \in MainFilters
    /\ outputs \in MainOutputs
    /\ policyErr = Nil
    /\ numCommits = 0
    /\ impact = Uncategorized
    /\ stdout = <<>>
    /\ exitCode = 0
    /\ paragraph = <<>>
    /\ extracted = <<>>

\* main: the version of --bump-version is parsed, and a string that is no
\* version ends the run (log.Fatalf).
MainParseBumpVersion ==
    /\ pc = "flags"
    /\ IF outputs.BumpVersion # EmptyStr
       THEN LET r == Parse(outputs.BumpVersion) IN
            IF r.err # Nil
            THEN sv' = sv /\ exitCode' = 1 /\ pc' = "exited"
            ELSE sv' = r.v /\ exitCode' = exitCode /\ pc' = "config"
       ELSE sv' = sv /\ exitCode' = exitCode /\ pc' = "config"
    /\ UNCHANGED <<line, msg, c, err, footer, isBreaking, cfg, commits, i,
                   parseErr, walk, parseArg, strOut, ver, other, third,
                   identA, identB, result, nextVer, cls, filters, outputs,
                   policyErr, numCommits, impact, stdout, paragraph,
                   extracted>>

\* main: the configuration file is found and opened; a failure of either
\* ends the run (log.Fatalf).
MainOpenConfig ==
    /\ pc = "config"
    /\ \E failed \in BOOLEAN :
        IF failed
        THEN err' = ErrConfig /\ exitCode' = 1 /\ pc' = "exited"
        ELSE err' = err /\ exitCode' = exitCode /\ pc' = "parse"
    /\ UNCHANGED <<line, msg, c, footer, isBreaking, cfg, commits, i,
                   parseErr, walk, parseArg, sv, strOut, ver, other, third,
                   identA, identB, result, nextVer, cls, filters, outputs,
                   policyErr, numCommits, impact, stdout, paragraph,
                   extracted>>

\* main: commits, parseErr = commit.ParseRange(...), the walk ending or git
\* failing after n commits; an error is logged and the run goes on.
MainParseRange ==
    /\ pc = "parse"
    /\ \E n \in 0..Len(walk), gitFailed \in BOOLEAN :
        /\ gitFailed \/ n = Len(walk)
        /\ \E r \in {ParseRange(walk, cfg, n, gitFailed)} :
            /\ commits' = r.commits
            /\ parseErr' = r.err
    /\ pc' = "policy"
    /\ UNCHANGED <<line, msg, c, err, footer, isBreaking, cfg, i, walk,
                   parseArg, sv, strOut, ver, other, third, identA, identB,
                   result, nextVer, cls, filters, outputs, policyErr,
                   numCommits, impact, stdout, exitCode, paragraph,
                   extracted>>

\* main: policyErr := commit.ApplyPolicy(commits, cfg), then the variables
\* of the loop, and --list implied by a filter without an output.
MainApplyPolicy ==
    /\ pc = "policy"
    /\ policyErr' = BatchApplyPolicy(commits, cfg)
    /\ numCommits' = 0
    /\ impact' = Uncategorized
    /\ outputs' = IF FiltersAny(filters) /\ ~OutputsAny(outputs)
                  THEN [outputs EXCEPT !.List = TRUE]
                  ELSE outputs
    /\ i' = 0
    /\ pc' = "loop"
    /\ UNCHANGED <<line, msg, c, err, footer, isBreaking, cfg, commits,
                   parseErr, walk, parseArg, sv, strOut, ver, other, third,
                   identA, identB, result, nextVer, cls, filters, stdout,
                   exitCode, paragraph, extracted>>

\* main: one iteration of the loop over commits.
MainLoop ==
    /\ pc = "loop"
    /\ OutputsAny(outputs)
    /\ i < Len(commits)
    /\ LET cm == commits[i + 1]
           k == Classification(cm, cfg)
       IN IF PassesFilters(cm, filters) /\ IsSelected(k, filters)
          THEN /\ cls' = k
               /\ stdout' = IF outputs.Format # EmptyStr
                            THEN Append(stdout, Execute(outputs.Format, cm))
                            ELSE IF outputs.List
                            THEN Append(stdout, ListLine(cm))
                            ELSE stdout
               /\ numCommits' = numCommits + 1
               /\ impact' = moreSevere(k, impact)
          ELSE /\ cls' = IF PassesFilters(cm, filters) THEN k ELSE cls
               /\ UNCHANGED <<stdout, numCommits, impact>>
    /\ i' = i + 1
    /\ UNCHANGED <<pc, line, msg, c, err, footer, isBreaking, cfg, commits,
                   parseErr, walk, parseArg, sv, strOut, ver, other, third,
                   identA, identB, result, nextVer, filters, outputs,
                   policyErr, exitCode, paragraph, extracted>>

\* main: after the loop, the count, the impact or the next version is
\* printed.
MainPrint ==
    /\ pc = "loop"
    /\ ~OutputsAny(outputs) \/ i = Len(commits)
    /\ IF outputs.Count
       THEN /\ stdout' = Append(stdout, FormatUint(numCommits) \o <<NewLine>>)
            /\ UNCHANGED nextVer
       ELSE IF outputs.Impact
       THEN /\ stdout' = Append(stdout, ImpactNames[impact + 1] \o <<NewLine>>)
            /\ UNCHANGED nextVer
       ELSE IF sv # NilSemver
       THEN /\ nextVer' = bump(sv[1], impact)
            /\ stdout' = Append(stdout, String(nextVer'[1]) \o <<NewLine>>)
       ELSE UNCHANGED <<stdout, nextVer>>
    /\ pc' = "exit"
    /\ UNCHANGED <<line, msg, c, err, footer, isBreaking, cfg, commits, i,
                   parseErr, walk, parseArg, sv, strOut, ver, other, third,
                   identA, identB, result, cls, filters, outputs, policyErr,
                   numCommits, impact, exitCode, paragraph, extracted>>

\* An exit status that looks at the parse error only.
exitStatusParseOnly(pe, po) == IF pe # Nil THEN 1 ELSE 0

\* The end of main: the exit status for the two errors.
exitStatus(pe, po) == IF pe # Nil \/ po # Nil THEN 1 ELSE 0

\* main: the run fails (os.Exit(1) or log.Fatalln) when parseErr or
\* policyErr is not nil, and ends normally otherwise.
MainExit ==
    /\ pc = "exit"
    /\ exitCode' = exitStatus(parseErr, policyErr)
    /\ pc' = "exited"
    /\ UNCHANGED <<line, msg, c, err, footer, isBreaking, cfg, commits, i,
                   parseErr, walk, parseArg, sv, strOut, ver, other, third,
                   identA, identB, result, nextVer, cls, filters, outputs,
                   policyErr, numCommits, impact, stdout, paragraph,
                   extracted>>

NextMain ==
    \/ MainParseBumpVersion
    \/ MainOpenConfig
    \/ MainParseRange
    \/ MainApplyPolicy
    \/ MainLoop
    \/ MainPrint
    \/ MainExit

SpecMain == InitMain /\ [][NextMain]_vars


\* The range holds a conventional commit of type ty.
RangeHolds(ty) ==
    \E k \in DOMAIN walk :
        Parsed(walk[k]).err = Nil /\ EqualFold(Parsed(walk[k]).c.Type, ty)

\* The range holds a conventional commit that is a breaking change.
RangeHoldsBreaking ==
    \E k \in DOMAIN walk :
        Parsed(walk[k]).err = Nil /\ Parsed(walk[k]).c.IsBreaking

\* main has printed its result for a whole range under the default
\* configuration, without filters; the range holds a 'fix' commit and no
\* breaking change.
FixRangeProcessed ==
    /\ pc \in {"exit", "exited"}
    /\ err # ErrConfig
    /\ cfg = Default
    /\ ~FiltersAny(filters)
    /\ parseErr # ErrGit
    /\ RangeHolds(TypeFix)
    /\ ~RangeHoldsBreaking

MinorLine == ImpactNames[Minor + 1] \o <<NewLine>>

PatchLine == ImpactNames[Patch + 1] \o <<NewLine>>

OneOneZeroLine == <<"1", ".", "1", ".", "0", NewLine>>

OneZeroOneLine == <<"1", ".", "0", ".", "1", NewLine>>

Printed == SubSeq(stdout[Len(stdout)], 1, Len(stdout[Len(stdout)]) - 1)

\* The version given to --bump-version, parsed.
Given == Parse(outputs.BumpVersion).v[1]

\* main has printed the next version.
VersionPrinted ==
    pc \in {"exit", "exited"} /\ sv # NilSemver /\ err # ErrConfig

\* C20: with --bump-version v the one line main prints is the text of
\* NextMajor(v) when the aggregate impact is Breaking, of NextMinor(v) when
\* Minor, of NextPatch(v) when Patch and of NextRelease(v) when
\* Uncategorized; the printed version carries no prerelease and no build
\* metadata; and major version 0 is not special: a breaking change on 0.x.y
\* prints 1.0.0.
C20_BumpVersionByImpact ==
    VersionPrinted =>
        /\ Len(stdout) = 1
        /\ stdout[1][Len(stdout[1])] = NewLine
        /\ impact = Breaking => Printed = String(NextMajor(Given)[1])
        /\ impact = Minor => Printed = String(NextMinor(Given)[1])
        /\ impact = Patch => Printed = String(NextPatch(Given)[1])
        /\ impact = Uncategorized => Printed = String(NextRelease(Given)[1])
        /\ \A k \in DOMAIN Printed : Printed[k] \notin {"-", "+"}
        /\ (impact = Breaking /\ Given.Major = 0) =>
               Printed = <<"1", ".", "0", ".", "0">>

\* A breaking change bumped 0.1.2-a+b to 1.0.0.
C20_WitnessBreakingOnZero ==
    /\ VersionPrinted
    /\ pc = "exited"
    /\ outputs.BumpVersion = <<"0", ".", "1", ".", "2", "-", "a", "+", "b">>
    /\ impact = Breaking
    /\ RangeHoldsBreaking
    /\ stdout = << <<"1", ".", "0", ".", "0", NewLine>> >>

-----------------------------------------------------------------------------
(* Properties of a run of main over a range *)

\* The commits of the range that are not excluded and parsed without error,
\* in traversal order.
Succeeded ==
    LET kept == SelectSeq(walk, LAMBDA g :
                    ~IsSkipped(g, cfg) /\ Parsed(g).err = Nil)
    IN [k \in 1..Len(kept) |-> Parsed(kept[k]).c]

\* Some commit of the range has a syntax error.
SomeSyntaxError ==
    \E k \in DOMAIN walk :
        ~IsSkipped(walk[k], cfg) /\ Parsed(walk[k]).err # Nil

\* Some parsed commit of the range violates the policy.
SomePolicyViolation ==
    \E k \in DOMAIN Succeeded : ApplyPolicy(Succeeded[k], cfg) # Nil

\* The classification of a commit, by the claim's words.
ClassOf(cm) ==
    IF cm.IsBreaking THEN Breaking
    ELSE IF OccursIn(cm.Type, cfg.Policy.Type.Minor) THEN Minor
    ELSE IF OccursIn(cm.Type, cfg.Policy.Type.Patch) THEN Patch
    ELSE Uncategorized

\* The commit passes the type, scope and impact filters of the command line.
Wanted(cm) ==
    /\ filters.Types.isNil \/ OccursIn(cm.Type, filters.Types)
    /\ filters.Scopes.isNil \/ OccursIn(cm.Scope, filters.Scopes)
    /\ \/ ~(\/ filters.Selections.Breaking \/ filters.Selections.Minor
            \/ filters.Selections.Patch \/ filters.Selections.Uncategorized)
       \/ filters.Selections.Breaking /\ ClassOf(cm) = Breaking
       \/ filters.Selections.Minor /\ ClassOf(cm) = Minor
       \/ filters.Selections.Patch /\ ClassOf(cm) = Patch
       \/ filters.Selections.Uncategorized /\ ClassOf(cm) = Uncategorized

\* The wanted commits among those that succeeded.
WantedCommits == SelectSeq(Succeeded, Wanted)

\* The most severe classification among the commits of cs, Uncategorized
\* when there is none.
MostSevere(cs) ==
    IF \E k \in DOMAIN cs : ClassOf(cs[k]) = Breaking THEN Breaking
    ELSE IF \E k \in DOMAIN cs : ClassOf(cs[k]) = Minor THEN Minor
    ELSE IF \E k \in DOMAIN cs : ClassOf(cs[k]) = Patch THEN Patch
    ELSE Uncategorized

\* An output was asked for, --list being implied by a filter alone.
OutputRequested ==
    \/ outputs.List \/ outputs.Format # EmptyStr \/ outputs.Count
    \/ outputs.Impact \/ outputs.BumpVersion # EmptyStr
    \/ ~filters.Types.isNil \/ ~filters.Scopes.isNil
    \/ filters.Selections.Breaking \/ filters.Selections.Minor
    \/ filters.Selections.Patch \/ filters.Selections.Uncategorized

\* A list is asked for, by --list or by a filter without an output flag.
ListRequested ==
    /\ OutputRequested
    /\ ~outputs.Count /\ ~outputs.Impact /\ outputs.BumpVersion = EmptyStr
    /\ outputs.Format = EmptyStr

\* The lines requested for the commits: a list line or a format line each.
RequestedLines ==
    IF outputs.Format # EmptyStr
    THEN [k \in 1..Len(WantedCommits) |-> <<WantedCommits[k].Id, NewLine>>]
    ELSE IF ListRequested
    THEN [k \in 1..Len(WantedCommits) |->
            <<WantedCommits[k].Id, ":", " ">> \o Summary(WantedCommits[k])
                \o <<NewLine>>]
    ELSE <<>>

\* The version the bump of g by classification k gives, as text.
Bumped(g, k) ==
    CASE k = Breaking -> String(NextMajor(g)[1])
      [] k = Minor -> String(NextMinor(g)[1])
      [] k = Patch -> String(NextPatch(g)[1])
      [] OTHER -> String(NextRelease(g)[1])

\* The closing line requested: the count, the impact or the next version.
RequestedClosing ==
    IF outputs.Count
    THEN << FormatUint(Len(WantedCommits)) \o <<NewLine>> >>
    ELSE IF outputs.Impact
    THEN << ImpactNames[MostSevere(WantedCommits) + 1] \o <<NewLine>> >>
    ELSE IF outputs.BumpVersion # EmptyStr
    THEN << Bumped(Given, MostSevere(WantedCommits)) \o <<NewLine>> >>
    ELSE <<>>

\* The run went through the whole range: the version to bump, if any, was
\* a version, the configuration was loaded and git did not fail.
WholeRange ==
    /\ outputs.BumpVersion # EmptyStr => sv # NilSemver
    /\ err # ErrConfig
    /\ parseErr # ErrGit

\* C21: a run over a whole range ends with a failure exit exactly when at
\* least one commit of the range had a syntax error or a policy violation,
\* and ends successfully otherwise; and once the run is about to exit or
\* has exited, every requested output for the commits that succeeded (the
\* list or format lines, then the count, the impact or the bumped version)
\* has been written, so a failure exit comes only after the output.
C21_FailureExitAfterOutput ==
    WholeRange =>
        /\ pc \in {"exit", "exited"} =>
               stdout = RequestedLines \o RequestedClosing
        /\ pc = "exited" =>
               exitCode = IF SomeSyntaxError \/ SomePolicyViolation
                          THEN 1 ELSE 0

\* A run over a range of a 'feat' commit and a commit with a syntax error
\* listed the first and then failed.
C21_WitnessListedThenFailed ==
    /\ pc = "exited"
    /\ WholeRange
    /\ Len(walk) = 2
    /\ SomeSyntaxError
    /\ ~SomePolicyViolation
    /\ outputs.List
    /\ stdout = << <<"1", ":", " ">> \o TypeFeat \o <<":", " ", "d", NewLine>> >>
    /\ exitCode = 1

\* A run whose only error is a policy violation counted the commits and
\* then failed.
C21_WitnessPolicyFailure ==
    /\ pc = "exited"
    /\ WholeRange
    /\ ~SomeSyntaxError
    /\ SomePolicyViolation
    /\ outputs.Count
    /\ stdout = << <<"2", NewLine>> >>
    /\ exitCode = 1


\* The message source or the loading of the configuration failed.
CollaboratorFailed == parseErr = ErrGit \/ err = ErrConfig

\* C22: when the message source fails (opening the repository, resolving
\* the range or walking the history returns an error) or the configuration
\* cannot be loaded, the run aborts before any commit-level output (a list
\* or format line, the count, the impact, the bumped version): nothing is
\* ever written to standard output.
C22_CollaboratorFailureAborts ==
    CollaboratorFailed => stdout = <<>>

-----------------------------------------------------------------------------
(* Order of the footers *)

\* A valid breaking marker: the exact token followed by ': '.
IsValidMarker(f) == IsExactBreakingToken(f.Token) /\ f.Separator = ColonSpace

\* The orderings of 1..n: its permutations.
Orderings(n) ==
    { p \in [1..n -> 1..n] : \A j, k \in 1..n : p[j] = p[k] => j = k }

\* The text of a footer as it is written in a message.
FooterText(f) == f.Token \o f.Separator \o f.Value

\* The message of cm with summary line first and its footers in the order p.
Reordered(cm, first, p) ==
    first \o <<NewLine, NewLine>>
        \o (IF cm.Body # EmptyStr THEN cm.Body \o <<NewLine, NewLine>>
            ELSE EmptyStr)
        \o Join([k \in 1..Len(cm.Footers) |-> FooterText(cm.Footers[p[k]])],
                <<NewLine>>)

\* s ends with a line terminator.
EndsWithNewLine(s) == Len(s) > 0 /\ s[Len(s)] = NewLine

\* C23: when setMessage has returned for a commit whose footers hold
\* exactly one valid breaking marker (and no footer value was extended by a
\* trailing blank line, so that the footers can be written in another
\* order as one paragraph), parsing the same message with the
\* footers in any other order has the same outcome (the same error or none,
\* the same breaking flag), and a commit that parsed is classified
\* Breaking, whatever the other footers are.
C23_FooterOrderIrrelevant ==
    (/\ pc = "done"
     /\ Cardinality({k \in DOMAIN c.Footers : IsValidMarker(c.Footers[k])}) = 1
     /\ \A k \in DOMAIN c.Footers : ~EndsWithNewLine(c.Footers[k].Value)) =>
        /\ err = Nil => Classification(c, cfg) = Breaking
        /\ \A p \in Orderings(Len(c.Footers)) :
            LET r == setMessage(NewCommit("0"),
                                Reordered(c, FirstLineOf(msg), p))
            IN /\ r.err = err
               /\ r.c.IsBreaking = c.IsBreaking

-----------------------------------------------------------------------------
(* Specification of Commit.Summary over messages that are a summary line
   alone *)

\* A summary line, alone or followed by line terminators.
SummaryMessages ==
    { first \o trailer :
        first \in FirstLines,
        trailer \in {EmptyStr, <<NewLine>>, <<NewLine, NewLine>>} }

InitSummary ==
    /\ pc = "start"
    /\ line = EmptyStr
    /\ msg \in SummaryMessages
    /\ c = NewCommit("0")
    /\ err = Nil
    /\ footer = NoFooter
    /\ isBreaking = FALSE
    /\ cfg = NoConfig
    /\ commits = <<>>
    /\ i = 0
    /\ parseErr = NewParseError
    /\ walk = <<>>
    /\ parseArg = <<>>
    /\ sv = <<>>
    /\ strOut = <<>>
    /\ ver = <<>>
    /\ other = <<>>
    /\ third = <<>>
    /\ identA = <<>>
    /\ identB = <<>>
    /\ result = 0
    /\ nextVer = <<>>
    /\ cls = 0
    /\ filters = <<>>
    /\ outputs = <<>>
    /\ policyErr = <<>>
    /\ numCommits = 0
    /\ impact = 0
    /\ stdout = <<>>
    /\ exitCode = 0
    /\ paragraph = <<>>
    /\ extracted = <<>>

\* strOut := c.Summary() for a commit that parsed.
CallSummary ==
    /\ pc = "done"
    /\ err = Nil
    /\ strOut' = Summary(c)
    /\ pc' = "summary"
    /\ UNCHANGED <<line, msg, c, err, footer, isBreaking, cfg, commits, i,
                   parseErr, walk, parseArg, sv, ver, other, third, identA,
                   identB, result, nextVer, cls, filters, outputs, policyErr,
                   numCommits, impact, stdout, exitCode, paragraph,
                   extracted>>

\* The summary is parsed as the message of a new commit, kept in commits.
ParseSummary ==
    /\ pc = "summary"
    /\ \E r \in {setMessage(NewCommit("0"), strOut)} :
        /\ commits' = <<r.c>>
        /\ err' = r.err
    /\ pc' = "reparsed"
    /\ UNCHANGED <<line, msg, c, footer, isBreaking, cfg, i, parseErr, walk,
                   parseArg, sv, strOut, ver, other, third, identA, identB,
                   result, nextVer, cls, filters, outputs, policyErr,
                   numCommits, impact, stdout, exitCode, paragraph,
                   extracted>>

NextSummary == SetMessage \/ CallSummary \/ ParseSummary

SpecSummary == InitSummary /\ [][NextSummary]_vars

\* C24: for a commit parsed successfully from a message without body and
\* footers, Summary() is the original summary line, and parsing the summary
\* again succeeds and gives the same type, scope, is-exclaimed flag and
\* description.
C24_SummaryRoundTrip ==
    /\ pc \in {"summary", "reparsed"} =>
           /\ c.Body = EmptyStr /\ c.Footers = <<>>
           /\ strOut = FirstLineOf(msg)
    /\ pc = "reparsed" =>
           /\ err = Nil
           /\ commits[1].Type = c.Type
           /\ commits[1].Scope = c.Scope
           /\ commits[1].IsExclaimed = c.IsExclaimed
           /\ commits[1].Description = c.Description

\* The summary of a commit with a scope and an exclamation mark was parsed
\* again.
C24_WitnessScopedExclaimed ==
    /\ pc = "reparsed"
    /\ c.Scope # EmptyStr
    /\ c.IsExclaimed
    /\ Len(msg) > Len(strOut)
    /\ commits[1].Scope = c.Scope


\* The commits the loop of main has processed so far: the wanted ones among
\* the first i commits.
Processed == SelectSeq(SubSeq(commits, 1, i), Wanted)

\* The commits in the order p.
InOrder(cs, p) == [k \in DOMAIN cs |-> cs[p[k]]]

\* C25: at every point of the loop of main the aggregate impact is the most
\* severe classification among the commits processed so far under
\* Breaking < Minor < Patch < Uncategorized (Uncategorized when there is
\* none); after the loop it is what the loop gives for every permutation of
\* the commits; and no step makes the running value less severe.
C25_AggregateImpact ==
    /\ [](pc \in {"loop", "exit", "exited"} =>
            impact = MostSevere(Processed))
    /\ []((pc = "exit" /\ OutputRequested) =>
            \A p \in Orderings(Len(commits)) :
                reduceImpact(InOrder(commits, p), cfg, filters, 1,
                             Uncategorized) = impact)
    /\ [][impact' <= impact]_vars

\* After a breaking change a 'fix' commit was processed and the impact
\* stayed Breaking.
C25_WitnessLessSevereLater ==
    /\ pc = "exit"
    /\ Len(Processed) = 2
    /\ ClassOf(Processed[1]) = Breaking
    /\ ClassOf(Processed[2]) = Patch
    /\ impact = Breaking

-----------------------------------------------------------------------------
(* Specification of extractFooters over bounded paragraphs *)

MaxFooterLineLen == 3

MaxParLines == 3

FooterLineAlphabet == {"a", ":", " "}

\* Longer lines: footers with a value, with '#', with the breaking-change
\* tokens, and lines that only look like footers.
LongFooterLines ==
    { <<"a", ":", " ", "b">>,
      <<"a", " ", "#", "b">>,
      <<"a", " ", "#">>,
      <<"#", "a", " ", "#", ":", " ", "b">>,
      <<"a", ":", " ", "b", ":", " ", "c">>,
      <<"a", " ", "b", ":", " ", "c">>,
      <<" ", "a", ":", " ", "b">>,
      <<"a", ":", "b", " ", "#", "c">>,
      <<"a", "#", "b">>,
      BreakingChangeSpace \o ColonSpaceX,
      BreakingChangeSpace \o <<" ", "#", "x">>,
      BreakingChangeSpace \o <<"S", ":", " ", "x">>,
      BreakingChangeHyphen \o ColonSpaceX }

FooterLines ==
    UNION { [1..n -> FooterLineAlphabet] : n \in 0..MaxFooterLineLen }
        \cup LongFooterLines

Paragraphs == UNION { [1..n -> FooterLines] : n \in 1..MaxParLines }

InitExtract ==
    /\ pc = "start"
    /\ line = EmptyStr
    /\ msg = EmptyStr
    /\ c = NewCommit("0")
    /\ err = Nil
    /\ footer = NoFooter
    /\ isBreaking = FALSE
    /\ cfg = NoConfig
    /\ commits = <<>>
    /\ i = 0
    /\ parseErr = NewParseError
    /\ walk = <<>>
    /\ parseArg = <<>>
    /\ sv = <<>>
    /\ strOut = <<>>
    /\ ver = <<>>
    /\ other = <<>>
    /\ third = <<>>
    /\ identA = <<>>
    /\ identB = <<>>
    /\ result = 0
    /\ nextVer = <<>>
    /\ cls = 0
    /\ filters = <<>>
    /\ outputs = <<>>
    /\ policyErr = <<>>
    /\ numCommits = 0
    /\ impact = 0
    /\ stdout = <<>>
    /\ exitCode = 0
    /\ paragraph \in Paragraphs
    /\ extracted = <<>>

\* extracted := extractFooters(paragraph)
CallExtractFooters ==
    /\ pc = "start"
    /\ extracted' = extractFooters(paragraph)
    /\ pc' = "done"
    /\ UNCHANGED <<line, msg, c, err, footer, isBreaking, cfg, commits, i,
                   parseErr, walk, parseArg, sv, strOut, ver, other, third,
                   identA, identB, result, nextVer, cls, filters, outputs,
                   policyErr, numCommits, impact, stdout, exitCode,
                   paragraph>>

NextExtract == CallExtractFooters

SpecExtract == InitExtract /\ [][NextExtract]_vars

\* tok is a footer token: the literal BREAKING CHANGE, or one or more
\* characters none of which is white space or ':'.
IsFooterToken(tok) ==
    \/ tok = BreakingChangeSpace
    \/ /\ Len(tok) > 0
       /\ \A k \in DOMAIN tok : tok[k] \notin {":", " ", "\t", "\n", "\r"}

\* s is a footer line: a footer token, then ': ' or ' #', then any text.
MatchesFooter(s) ==
    \E t \in 1..(Len(s) - 2) :
        /\ IsFooterToken(SubSeq(s, 1, t))
        /\ SubSeq(s, t + 1, t + 2) \in {ColonSpace, SpaceHash}

\* The indexes of the footer lines of the paragraph, in increasing order.
MatchingIndexes ==
    LET idx == [k \in DOMAIN paragraph |-> k] IN
    SelectSeq(idx, LAMBDA k : MatchesFooter(paragraph[k]))

\* The lines of the paragraph from its j-th footer line up to the line
\* before the next footer line.
LinesOfFooter(j) ==
    SubSeq(paragraph, MatchingIndexes[j],
           IF j < Len(MatchingIndexes) THEN MatchingIndexes[j + 1] - 1
           ELSE Len(paragraph))

\* C26: when extractFooters has returned for a paragraph whose first line
\* is a footer line, there is one footer per footer line, in line order,
\* duplicate tokens kept; the text of each footer (token, separator, value)
\* is its footer line followed, each after a newline, by the lines up to
\* the next footer line; every separator is ': ' or ' #' and every token
\* is BREAKING CHANGE or free of white space and ':'; so the texts of the
\* footers joined by newlines are the paragraph.
C26_ExtractFootersReconstructs ==
    (pc = "done" /\ MatchesFooter(paragraph[1])) =>
        /\ Len(extracted) = Len(MatchingIndexes)
        /\ \A j \in DOMAIN extracted :
            /\ FooterText(extracted[j]) = Join(LinesOfFooter(j), <<NewLine>>)
            /\ extracted[j].Separator \in {ColonSpace, SpaceHash}
            /\ IsFooterToken(extracted[j].Token)
        /\ Join([j \in DOMAIN extracted |-> FooterText(extracted[j])],
                <<NewLine>>) = Join(paragraph, <<NewLine>>)

\* A paragraph of a footer line, a continuation line and a second footer
\* line with the same token gave two footers.
C26_WitnessDuplicateAndContinuation ==
    /\ pc = "done"
    /\ Len(paragraph) = 3
    /\ MatchesFooter(paragraph[1])
    /\ ~MatchesFooter(paragraph[2])
    /\ paragraph[2] # EmptyStr
    /\ Len(extracted) = 2
    /\ extracted[1].Token = extracted[2].Token
    /\ extracted[1].Value = <<"b", NewLine>> \o paragraph[2]

-----------------------------------------------------------------------------
(* Commit.ApplyPolicy of the later revision of the package, which checks the
   required footers on a working copy of the set.

   A CaseInsensitiveSet is a Go map, a reference: the maps an evaluation
   can reach are kept in cells, "policy" for the set of the policy, "copy"
   for the one Copy makes and "none" for the nil map of an unassigned
   variable, and a variable of the code holds the name of a cell. *)

Cells(set) == [policy |-> set, copy |-> NilSet, none |-> NilSet]

\* CaseInsensitiveSet.Copy: a new map with the entries of the receiver.
Copy(cells, from) ==
    [cells |-> [cells EXCEPT !.copy = [isNil |-> FALSE, m |-> cells[from].m]],
     ref |-> "copy"]

\* CaseInsensitiveSet.Remove: the entry of the item, case ignored, is
\* deleted from the map; a missing item and a nil map are left alone.
Remove(cells, ref, item) ==
    LET set == cells[ref] IN
    IF set.isNil THEN cells
    ELSE [cells EXCEPT ![ref] =
             [isNil |-> FALSE,
              m |-> [k \in DOMAIN set.m \ {ToLower(item)} |-> set.m[k]]]]

\* The footer loop of the later Commit.ApplyPolicy from index k on, and the
\* check of the required tokens left: the error and the maps afterwards.
RECURSIVE checkRequiredFooters(_, _, _, _, _)
checkRequiredFooters(cm, policy, cells, ref, k) ==
    IF k > Len(cm.Footers)
    THEN [err |-> IF Cardinality(DOMAIN cells[ref].m) > 0
                  THEN ErrRequiredFooters(cm.Id, cells[ref])
                  ELSE Nil,
          cells |-> cells]
    ELSE IF /\ ~policy.Footer.Tokens.isNil
            /\ ~Contains(policy.Footer.Tokens, cm.Footers[k].Token)
    THEN [err |-> ErrUnrecognizedFooter(cm.Id, cm.Footers[k].Token),
          cells |-> cells]
    ELSE checkRequiredFooters(cm, policy,
                              Remove(cells, ref, cm.Footers[k].Token),
                              ref, k + 1)

\* The result of the later Commit.ApplyPolicy, given what the footer part
\* returned: the error, and the configuration with the map of its required
\* tokens as the call left it.
policyResult(cf, r) ==
    [err |-> r.err,
     cfg |-> [cf EXCEPT !.Policy.Footer.RequiredTokens = r.cells.policy]]

\* The required tokens taken without a copy: reqTokens is the map of the
\* policy itself.
workingCopyShared(cells) ==
    [cells |-> cells, ref |-> IF ~cells.policy.isNil THEN "policy" ELSE "none"]

\* The working copy of the required tokens: reqTokens stays the nil map
\* when the policy has none.
workingCopy(cells) ==
    IF ~cells.policy.isNil THEN Copy(cells, "policy")
    ELSE [cells |-> cells, ref |-> "none"]

\* The footer part of the later Commit.ApplyPolicy.
footerPolicy(cm, policy, w) ==
    checkRequiredFooters(cm, policy, w.cells, w.ref, 1)

\* Commit.ApplyPolicy of the later revision: the error returned and the
\* configuration after the call.
ApplyPolicyLater(cm, cf) ==
    LET policy == cf.Policy
        descLen == Len(cm.Description)
        min == policy.Description.MinLength
        max == policy.Description.MaxLength
    IN IF ~policy.Type.Types.isNil /\ ~Contains(policy.Type.Types, cm.Type)
       THEN [err |-> ErrUnrecognizedType(cm.Id), cfg |-> cf]
       ELSE IF cm.Scope = EmptyStr /\ policy.Scope.Required
       THEN [err |-> ErrRequiredScope(cm.Id), cfg |-> cf]
       ELSE IF /\ cm.Scope # EmptyStr
               /\ ~policy.Scope.Scopes.isNil
               /\ ~Contains(policy.Scope.Scopes, cm.Scope)
       THEN [err |-> ErrUnrecognizedScope(cm.Id), cfg |-> cf]
       ELSE IF (descLen < min) \/ (max > 0 /\ descLen > max)
       THEN [err |-> ErrDescriptionLength(cm.Id, min, max), cfg |-> cf]
       ELSE policyResult(cf,
                footerPolicy(cm, policy,
                    workingCopy(Cells(policy.Footer.RequiredTokens))))

-----------------------------------------------------------------------------
(* Specification of the batch ApplyPolicy of the later revision over
   commits with footers *)

FrameFooters == { Footer(<<"R">>, ColonSpace, <<"1">>),
                  Footer(<<"r">>, SpaceHash, <<"1">>),
                  Footer(<<"S">>, ColonSpace, <<"1">>) }

FramePool ==
    { [NewCommit("0") EXCEPT !.Type = <<"f">>, !.Scope = sc,
                             !.Description = <<"d">>, !.Footers = fs] :
        sc \in {EmptyStr, <<"s">>},
        fs \in UNION { [1..n -> FrameFooters] : n \in 0..MaxFooters } }

\* Batches of commits with their position as identifier.
FrameBatches ==
    { [k \in 1..n |-> [b[k] EXCEPT !.Id = ToString(k)]] :
        n \in 0..MaxBatch, b \in [1..MaxBatch -> FramePool] }

FrameConfigs ==
    { Config(NilSet, required, NilSet, 0, 0, requiredTokens, tokens) :
        required \in BOOLEAN,
        requiredTokens \in { NilSet,
                             NewCaseInsensitiveSet(<<>>),
                             NewCaseInsensitiveSet(<<<<"R">>>>),
                             NewCaseInsensitiveSet(<<<<"r">>, <<"S">>>>) },
        tokens \in { NilSet, NewCaseInsensitiveSet(<<<<"R">>>>) } }

InitFrame ==
    /\ pc = "loop"
    /\ line = EmptyStr
    /\ msg = EmptyStr
    /\ c = NewCommit("0")
    /\ err = Nil
    /\ footer = NoFooter
    /\ isBreaking = FALSE
    /\ cfg \in FrameConfigs
    /\ commits \in FrameBatches
    /\ i = 0
    /\ parseErr = NewParseError
    /\ walk = <<>>
    /\ parseArg = <<>>
    /\ sv = <<>>
    /\ strOut = <<>>
    /\ ver = <<>>
    /\ other = <<>>
    /\ third = <<>>
    /\ identA = <<>>
    /\ identB = <<>>
    /\ result = 0
    /\ nextVer = <<>>
    /\ cls = 0
    /\ filters = <<>>
    /\ outputs = <<>>
    /\ policyErr = <<>>
    /\ numCommits = 0
    /\ impact = 0
    /\ stdout = <<>>
    /\ exitCode = 0
    /\ paragraph = <<>>
    /\ extracted = <<>>

\* One iteration of the loop of the batch ApplyPolicy: the commit is
\* checked against cfg, which the call may have changed.
FrameLoop ==
    /\ pc = "loop"
    /\ i < Len(commits)
    /\ \E r \in {ApplyPolicyLater(commits[i + 1], cfg)} :
        /\ cfg' = r.cfg
        /\ parseErr' = IF r.err # Nil THEN AppendError(parseErr, r.err)
                       ELSE parseErr
    /\ i' = i + 1
    /\ UNCHANGED <<pc, line, msg, c, err, footer, isBreaking, commits, walk,
                   parseArg, sv, strOut, ver, other, third, identA, identB,
                   result, nextVer, cls, filters, outputs, policyErr,
                   numCommits, impact, stdout, exitCode, paragraph,
                   extracted>>

\* The end of the batch ApplyPolicy: the aggregate when it has errors.
FrameReturn ==
    /\ pc = "loop"
    /\ i = Len(commits)
    /\ err' = IF HasErrors(parseErr) THEN parseErr ELSE Nil
    /\ pc' = "done"
    /\ UNCHANGED <<line, msg, c, footer, isBreaking, cfg, commits, i,
                   parseErr, walk, parseArg, sv, strOut, ver, other, third,
                   identA, identB, result, nextVer, cls, filters, outputs,
                   policyErr, numCommits, impact, stdout, exitCode,
                   paragraph, extracted>>

NextFrame == FrameLoop \/ FrameReturn

SpecFrame == InitFrame /\ [][NextFrame]_vars

\* The positions of the footers of cm whose token is not an allowed one.
UnrecognizedAt(cm, cf) ==
    { k \in DOMAIN cm.Footers :
        /\ IsConfigured(cf.Policy.Footer.Tokens)
        /\ ~OccursIn(cm.Footers[k].Token, cf.Policy.Footer.Tokens) }

\* What the policy gives for the commit evaluated alone against cf.
EvaluatedAlone(cm, cf) ==
    IF cm.Scope = EmptyStr /\ cf.Policy.Scope.Required
    THEN ErrRequiredScope(cm.Id)
    ELSE IF UnrecognizedAt(cm, cf) # {}
    THEN LET k == CHOOSE k \in UnrecognizedAt(cm, cf) :
                      \A j \in UnrecognizedAt(cm, cf) : k <= j
         IN ErrUnrecognizedFooter(cm.Id, cm.Footers[k].Token)
    ELSE IF MissingTokens(cm, cf) # {}
    THEN ErrRequiredFooters(cm.Id, MissingSet(cm, cf))
    ELSE Nil

\* The errors of the first n commits, each evaluated alone against cf.
ErrorsAlone(n, cf) ==
    SelectSeq([k \in 1..n |-> EvaluatedAlone(commits[k], cf)],
              LAMBDA e : e # Nil)

\* C27: evaluating the policy over a sequence of commits never changes the
\* configuration, in particular not the set of required footer tokens, and
\* the errors collected are at every point those of the commits evaluated
\* so far, each evaluated alone against the configuration.
C27_PolicyUnchanged ==
    /\ [][cfg' = cfg]_vars
    /\ [](parseErr = <<"ParseError", ErrorsAlone(i, cfg)>>)

\* A commit that carries the required footer was evaluated before one that
\* does not, and the second was reported.
C27_WitnessRequiredAfterSeen ==
    /\ pc = "done"
    /\ Len(commits) = 2
    /\ DOMAIN cfg.Policy.Footer.RequiredTokens.m = {<<"r">>}
    /\ Len(commits[1].Footers) = 1
    /\ commits[1].Footers[1].Token = <<"r">>
    /\ commits[2].Footers = <<>>
    /\ Len(parseErr[2]) = 1
    /\ parseErr[2][1][1] = "2"

-----------------------------------------------------------------------------
(* Blank lines after the footers *)

\* The message without the line terminators at its end, that is without
\* trailing blank lines.
RECURSIVE WithoutTrailingBlankLines(_)
WithoutTrailingBlankLines(m) ==
    IF EndsWithNewLine(m)
    THEN WithoutTrailingBlankLines(SubSeq(m, 1, Len(m) - 1))
    ELSE m

\* The footers setMessage extracts from the message m.
FootersOf(m) == setMessage(NewCommit("0"), m).c.Footers

\* C28: when setMessage has returned without an error, no footer value ends
\* with a newline, and the footers are those extracted from the same
\* message without its trailing blank lines.
C28_TrailingBlankLinesIgnored ==
    (pc = "done" /\ err = Nil) =>
        /\ \A k \in DOMAIN c.Footers : ~EndsWithNewLine(c.Footers[k].Value)
        /\ c.Footers = FootersOf(WithoutTrailingBlankLines(msg))

-----------------------------------------------------------------------------
(* Precedence of the results of the increment operations *)

HasPrerelease(u) == Len(u.Prerelease.elems) > 0

\* C29: for every version v, when an increment operation has returned:
\* NextPatch(v) compares above v, NextMinor(v) above NextPatch(v),
\* NextMajor(v) above NextMinor(v), and NextRelease(v) compares above v
\* when v has a prerelease and equal to v when it has none.
C29_BumpRaisesPrecedence ==
    /\ pc = "NextPatch" => Compare(nextVer[1], ver[1]) = 1
    /\ pc = "NextMinor" => Compare(nextVer[1], NextPatch(ver[1])[1]) = 1
    /\ pc = "NextMajor" => Compare(nextVer[1], NextMinor(ver[1])[1]) = 1
    /\ pc = "NextRelease" =>
          Compare(nextVer[1], ver[1]) = (IF HasPrerelease(ver[1]) THEN 1 ELSE 0)

\* NextRelease has returned for a version with a prerelease whose numbers
\* are the largest that Parse yields.
C29_WitnessReleaseOfLargest ==
    /\ pc = "NextRelease"
    /\ HasPrerelease(ver[1])
    /\ ver[1].Major = MaxInt /\ ver[1].Minor = MaxInt /\ ver[1].Patch = MaxInt
    /\ Compare(nextVer[1], ver[1]) = 1

-----------------------------------------------------------------------------
(* The commits a run of main lists, counts and reduces *)

\* The identifiers at the head of the lines written for commits.
ListedIds == { stdout[k][1] : k \in 1..numCommits }

\* Lines are written for the commits: a list or a format was asked for.
LinesWritten == outputs.List \/ outputs.Format # EmptyStr

\* The identifiers of the commits of the range with a syntax error.
SyntaxErrorIds ==
    { walk[k].Id : k \in { j \in DOMAIN walk :
                             ~IsSkipped(walk[j], cfg)
                                 /\ Parsed(walk[j]).err # Nil } }

\* The identifiers of the wanted commits that violate the policy.
WantedViolatorIds ==
    { WantedCommits[k].Id : k \in { j \in DOMAIN WantedCommits :
                                      ApplyPolicy(WantedCommits[j], cfg) # Nil } }

\* C30: when a run over a whole range with an output requested is about to
\* exit or has exited, the commits counted are the wanted ones (parsed
\* without error and passing the type, scope and impact filters), the
\* impact is the most severe among them, and the commits listed are they:
\* a wanted commit that violates the policy is listed, a commit with a
\* syntax error is not.
C30_ExactlyTheWantedCommits ==
    (WholeRange /\ OutputRequested /\ pc \in {"exit", "exited"}) =>
        /\ numCommits = Len(WantedCommits)
        /\ impact = MostSevere(WantedCommits)
        /\ LinesWritten =>
              /\ ListedIds = { WantedCommits[k].Id : k \in DOMAIN WantedCommits }
              /\ WantedViolatorIds \subseteq ListedIds
              /\ SyntaxErrorIds \cap ListedIds = {}

\* A run has listed a commit that violates the policy, and not the commit
\* with a syntax error that follows it.
C30_WitnessViolatorListed ==
    /\ pc = "exited"
    /\ WholeRange
    /\ outputs.List
    /\ Len(walk) = 2
    /\ WantedViolatorIds = {"1"}
    /\ SyntaxErrorIds = {"2"}
    /\ ListedIds = {"1"}
    /\ numCommits = 1
    /\ impact = Minor

====
